---- MODULE Spec2Model ----
(***************************************************************************)
(* Snippet ingestion and retrieval pipeline (zevanreg/snippy-ai-hackathon). *)
(*                                                                         *)
(* The module models                                                       *)
(*   - the embeddings blueprint (src/src/functions/bp_embeddings.py):       *)
(*     validate_input, the durable orchestrator embeddings_orchestrator,    *)
(*     the activities embed_chunk_activity and persist_snippet_activity and *)
(*     the HTTP starter http_start_embeddings;                              *)
(*   - the Cosmos data layer (src/src/data/cosmos_ops.py): upsert_document, *)
(*     list_snippets_by_project, get_snippet_by_id, query_similar_snippets. *)
(*                                                                         *)
(* JSON values are tagged records.  A text is a sequence of characters.     *)
(* A durable orchestration is modelled the way the Durable Functions host   *)
(* runs it: every episode re-executes the generator from its first line     *)
(* against the history of completed tasks (replay), and stops at the first  *)
(* yield whose tasks have not all completed.                                *)
(***************************************************************************)
EXTENDS Integers, Sequences, FiniteSets, TLC

\* ------------------------------------------------------------------ bounds

\* Longest code text of a submitted snippet.
MaxLen == 3
\* Largest number of snippets in one submitted batch.
MaxSnippets == 2

\* ------------------------------------------------------- program constants

\* CHUNK_SIZE = int(os.environ.get("CHUNK_SIZE", "800")); the deployment
\* modelled here sets the application setting CHUNK_SIZE to 2.
CHUNK_SIZE == 2

\* os.environ.get("DEFAULT_PROJECT_ID", "default-project")
DEFAULT_PROJECT_ID == "default-project"

\* ------------------------------------------------------------- JSON values

\* A key that is not present in a mapping.
Absent == "<absent>"

Chars == {"x", " "}
Whitespace == {" "}

SeqsUpTo(S, n) == UNION {[1..k -> S] : k \in 0..n}

Texts == SeqsUpTo(Chars, MaxLen)

Names == {"a", "b"}
Projects == {"p1", "p2"}

\* The values under the key "code": missing, not a string, or a string, the
\* strings being those of the set texts.
CodeValues(texts) ==
    {[type |-> "absent"], [type |-> "number"]} \cup {[type |-> "str", text |-> t] : t \in texts}

\* A value that is not a string (a number), where a string is expected.
NotAString == "<number>"

\* The elements of a "snippets" list: not a mapping, or a mapping whose
\* "name" is one of names.
SnippetValues(texts, names) ==
    {[type |-> "other"]} \cup
    {[type |-> "dict", name |-> n, code |-> c, language |-> Absent, description |-> Absent] :
        n \in names, c \in CodeValues(texts)}

\* The values under the key "snippets": missing, not a list, or a list.
SnippetsValues(texts, names) ==
    {[type |-> "absent"], [type |-> "string"]} \cup
    {[type |-> "list", items |-> s] : s \in SeqsUpTo(SnippetValues(texts, names), MaxSnippets)}

EmptyDict == [type |-> "dict", projectId |-> Absent, snippets |-> [type |-> "absent"]]

\* The request bodies / orchestration inputs: null, a number, a string or a
\* mapping.
Payloads(texts, names, projects) ==
    {[type |-> "null"], [type |-> "number"], [type |-> "string"]} \cup
    {[type |-> "dict", projectId |-> p, snippets |-> s] :
        p \in projects \cup {Absent}, s \in SnippetsValues(texts, names)}

\* ---------------------------------------------------------- validate_input

RECURSIVE LStrip(_)
LStrip(t) ==
    IF t # <<>> /\ Head(t) \in Whitespace THEN LStrip(Tail(t)) ELSE t

RECURSIVE RStrip(_)
RStrip(t) ==
    IF t # <<>> /\ t[Len(t)] \in Whitespace THEN RStrip(SubSeq(t, 1, Len(t) - 1)) ELSE t

\* A strip that leaves the text as it is.
Strip_Identity(t) == t

\* str.strip(): the text without its leading and trailing whitespace.
Strip(t) == RStrip(LStrip(t))

\* The loop body with the blank check done on the untrimmed string.
SnippetOk_NoStrip(snip) ==
    IF snip.type # "dict" THEN FALSE
    ELSE IF snip.name = Absent \/ snip.code.type = "absent" THEN FALSE
    ELSE IF snip.code.type # "str" THEN FALSE
    ELSE IF snip.code.text = <<>> THEN FALSE
    ELSE TRUE

\* The body of the loop over the snippets (lines 208-213): TRUE when the
\* loop goes on to the next element, FALSE when it returns False.
SnippetOk(snip) ==
    IF snip.type # "dict" THEN FALSE
    ELSE IF snip.name = Absent \/ snip.code.type = "absent" THEN FALSE
    ELSE IF snip.code.type # "str" THEN FALSE
    ELSE IF Strip(snip.code.text) = <<>> THEN FALSE
    ELSE TRUE

RECURSIVE SnippetsOkFrom(_, _)
SnippetsOkFrom(items, i) ==
    IF i > Len(items) THEN TRUE
    ELSE IF ~SnippetOk(items[i]) THEN FALSE
    ELSE SnippetsOkFrom(items, i + 1)

validate_input(input) ==
    IF input.type # "dict" THEN FALSE
    ELSE IF input.snippets.type = "absent" THEN FALSE
    ELSE IF input.snippets.type # "list" \/ Len(input.snippets.items) = 0 THEN FALSE
    ELSE SnippetsOkFrom(input.snippets.items, 1)

\* ------------------------------------------------------------------ floats

RECURSIVE GCD(_, _)
GCD(a, b) == IF b = 0 THEN a ELSE GCD(b, a % b)

\* The quotient with the integer division s // n.
Quotient_Floor(s, n) == [num |-> s \div n, den |-> 1]

\* The quotient s / n of a float sum by a count, kept exact as a fraction in
\* lowest terms; the float with the integral value v is [num |-> v, den |-> 1].
Quotient(s, n) ==
    LET g == GCD(s, n) IN [num |-> s \div g, den |-> n \div g]

Float(v) == [num |-> v, den |-> 1]

\* ---------------------------------------------------------------- chunking

Min(a, b) == IF a < b THEN a ELSE b

RECURSIVE Range(_, _, _)
\* range(start, stop, step) as the sequence of its values.
Range(start, stop, step) ==
    IF start >= stop THEN <<>> ELSE <<start>> \o Range(start + step, stop, step)

\* text[i : i + size]: the slice stops at the end of the text.
Slice(text, i, size) == SubSeq(text, i + 1, Min(i + size, Len(text)))

\* The chunk list that keeps the full chunks only: range stops at
\* len(text) - size + 1.
ChunkList_FullOnly(text, size) ==
    LET starts == Range(0, Len(text) - size + 1, size)
        list == [k \in 1..Len(starts) |-> Slice(text, starts[k], size)]
    IN IF list = <<>> THEN << <<>> >> ELSE list

\* [text[i : i + size] for i in range(0, len(text), size)] or [""]
ChunkList(text, size) ==
    LET starts == Range(0, Len(text), size)
        list == [k \in 1..Len(starts) |-> Slice(text, starts[k], size)]
    IN IF list = <<>> THEN << <<>> >> ELSE list

\* The comprehension without its fallback "or [""]".
Chunks_NoFallback(text) ==
    LET starts == Range(0, Len(text), CHUNK_SIZE)
    IN [k \in 1..Len(starts) |-> Slice(text, starts[k], CHUNK_SIZE)]

\* chunks = [text[i : i + CHUNK_SIZE] for i in range(...)] or [""]
Chunks(text) == ChunkList(text, CHUNK_SIZE)

\* ------------------------------------------------------------- aggregation

RECURSIVE SumAt(_, _, _)
\* sums[j] after the loop over the first n vectors (j is 1-based here).
SumAt(embeddings, j, n) ==
    IF n = 0 THEN 0 ELSE SumAt(embeddings, j, n - 1) + embeddings[n][j]

\* Lines 71-78.  vec[j] raises IndexError when a vector is shorter than the
\* first one; a longer vector is read up to dim only.
Aggregate(embeddings) ==
    IF embeddings = <<>> \/ embeddings[1] = <<>>
    THEN [raised |-> FALSE, agg |-> <<>>]
    ELSE LET dim == Len(embeddings[1]) IN
         IF \E n \in 1..Len(embeddings) : Len(embeddings[n]) < dim
         THEN [raised |-> TRUE, agg |-> <<>>]
         ELSE [raised |-> FALSE,
               agg |-> [j \in 1..dim |->
                          Quotient(SumAt(embeddings, j, Len(embeddings)), Len(embeddings))]]

\* ------------------------------------------------- embeddings_orchestrator

\* One context.call_activity(name, input): the scheduled call.  snip is the
\* position in the batch of the snippet the call was made for.
Call(name, input, snip) == [name |-> name, input |-> input, snip |-> snip]

\* dict.get(key, default) for a key that may be absent.
Get(value, default) == IF value = Absent THEN default ELSE value

\* payload = context.get_input() or {}
GetInputOrEmpty(input) ==
    IF input.type = "null" \/ input = EmptyDict THEN EmptyDict ELSE input

\* context.is_replaying where the generator has been resumed with the results
\* of its first pos tasks: the code running there is a replay when the events
\* that led to it (the start, event 0, and the completions of tasks 1..pos)
\* were all processed by an earlier episode already.
IsReplaying(context, pos) == (0..pos) \subseteq context.seen

\* The fan-out made only when the code is not replaying.
FanOut_SkipOnReplay(context, calls, chunks, snip) ==
    IF IsReplaying(context, Len(calls)) THEN calls
    ELSE calls \o [k \in 1..Len(chunks) |->
                     Call("embed_chunk_activity", [chunkIndex |-> k - 1, text |-> chunks[k]], snip)]

\* Lines 62-65: one call_activity per chunk, chunkIndex counted from 0.
FanOut(context, calls, chunks, snip) ==
    calls \o [k \in 1..Len(chunks) |->
                Call("embed_chunk_activity", [chunkIndex |-> k - 1, text |-> chunks[k]], snip)]

\* A barrier that lets the generator go on once any task has completed.
TaskAllDone_Any(context, ids) == \E id \in ids : id \in DOMAIN context.completed

\* yield context.task_all(tasks) resumes the generator once every task of
\* the list has completed.
TaskAllDone(context, ids) == ids \subseteq DOMAIN context.completed

\* The call made without yield: the generator does not wait for the task.
TaskDone_NoWait(context, id) == TRUE

\* yield context.call_activity(...) resumes the generator once the task has
\* completed.
TaskDone(context, id) == id \in DOMAIN context.completed

\* The value a yield expression evaluates to when the generator is resumed:
\* the recorded result of the task.
ResultOf(context, id) ==
    IF id \in DOMAIN context.completed THEN context.completed[id] ELSE <<>>

\* Lines 81-84: the input of persist_snippet_activity.
PersistInput(project_id, name, text, agg, language, description) ==
    [projectId |-> project_id, name |-> name, code |-> text, embedding |-> agg,
     language |-> language, description |-> description]

\* What one execution of the generator leaves: the calls it made, in order,
\* whether it is blocked at a yield ("running"), has returned ("completed")
\* or raised ("failed"), the returned value and the lines it logged.
Episode(calls, status, output, logs) ==
    [calls |-> calls, status |-> status, output |-> output, logs |-> logs]

RECURSIVE RunLoop(_, _, _, _, _, _, _)
\* Lines 44-90: the for loop from snippet number i on, then the return.
RunLoop(context, project_id, snippets, i, calls, result, logs) ==
    IF i > Len(snippets)
    THEN Episode(calls, "completed", result,
                 Append(logs, IF IsReplaying(context, Len(calls))
                              THEN "[REPLAY] ORCH done" ELSE "[EXEC] ORCH done"))
    ELSE
    LET snippet == snippets[i]
        name == Get(snippet.name, "unnamed")
        text == IF snippet.code.type = "absent" THEN <<>> ELSE snippet.code.text
        language == Get(snippet.language, "unknown")
        description == Get(snippet.description, "no description")
    IN
    IF text = <<>>
    THEN RunLoop(context, project_id, snippets, i + 1, calls, result,
                 Append(logs, "Skipping empty snippet"))
    ELSE
    LET logs1 == IF IsReplaying(context, Len(calls)) THEN logs
                 ELSE Append(logs, "Processing snippet")
        chunks == Chunks(text)
        calls1 == FanOut(context, calls, chunks, i)
        ids == (Len(calls) + 1)..Len(calls1)
    IN
    IF ~TaskAllDone(context, ids) THEN Episode(calls1, "running", <<>>, logs1)
    ELSE
    LET embeddings == [k \in 1..Len(chunks) |-> ResultOf(context, Len(calls) + k)]
        a == Aggregate(embeddings)
    IN
    IF a.raised THEN Episode(calls1, "failed", "IndexError", logs1)
    ELSE
    LET calls2 == Append(calls1,
                         Call("persist_snippet_activity",
                              PersistInput(project_id, name, text, a.agg, language, description),
                              i))
        id == Len(calls2)
    IN
    IF ~TaskDone(context, id) THEN Episode(calls2, "running", <<>>, logs1)
    ELSE RunLoop(context, project_id, snippets, i + 1, calls2, ResultOf(context, id), logs1)

\* Lines 26-90: one execution of the generator from its first line, for the
\* context [input, completed, seen].
embeddings_orchestrator(context) ==
    LET payload == GetInputOrEmpty(context.input) IN
    IF ~validate_input(payload)
    THEN Episode(<<>>, "failed", "ValueError: Invalid input payload", <<>>)
    ELSE
    LET project_id == Get(payload.projectId, DEFAULT_PROJECT_ID)
        snippets == payload.snippets.items
        logs == IF IsReplaying(context, 0)
                THEN <<"[REPLAY] ORCH replay">> ELSE <<"[EXEC] ORCH start">>
    IN RunLoop(context, project_id, snippets, 1, <<>>, <<>>, logs)

\* ---------------------------------------------------------------- the store

\* The document upsert_document builds (lines 167-180); language and
\* description are keys of the document only when they are not None.
Document(name, project_id, code, embedding, language, description) ==
    [id |-> name, name |-> name, projectId |-> project_id, code |-> code,
     type |-> "code-snippet", embedding |-> embedding,
     language |-> language, description |-> description]

\* PartitionKey(path="/name") of get_container (line 106).
PartitionKeyOf(doc) == doc.name

\* upsert_item that creates the document and leaves the item it should replace.
upsert_item_Insert(container, document) == container \cup {document}

\* container.upsert_item(document): the item with the same id in the same
\* logical partition is replaced, otherwise the document is created.
upsert_item(container, document) ==
    {d \in container :
        ~(d.id = document.id /\ PartitionKeyOf(d) = PartitionKeyOf(document))}
    \cup {document}

\* upsert_document (lines 133-190): available is FALSE when get_container or
\* upsert_item raises, and the exception is re-raised to the caller.
upsert_document(container, name, project_id, code, embedding, language, description, available) ==
    IF ~available
    THEN [raised |-> TRUE, container |-> container, result |-> <<>>]
    ELSE LET document == Document(name, project_id, code, embedding, language, description)
         IN [raised |-> FALSE, container |-> upsert_item(container, document),
             result |-> document]

\* SELECT c.id, c.name, c.projectId, c.code: the fields a listing returns.
Listed(d) == [id |-> d.id, name |-> d.name, projectId |-> d.projectId, code |-> d.code]

\* list_snippets_by_project (lines 223-240): the rows of the query
\* "... WHERE c.type = 'code-snippet' AND c.projectId = @pid", in no
\* particular order.
list_snippets_by_project(container, project_id) ==
    {Listed(d) : d \in {x \in container : x.type = "code-snippet" /\ x.projectId = project_id}}

\* A lookup that finds the documents of the default project alone.
get_snippet_by_id_Scoped(container, name) ==
    LET found == {d \in container : d.id = name /\ d.projectId = DEFAULT_PROJECT_ID}
    IN IF found = {} THEN [found |-> FALSE, doc |-> <<>>]
       ELSE [found |-> TRUE, doc |-> CHOOSE d \in found : TRUE]

\* get_snippet_by_id (lines 244-275): read_item(item=name, partition_key=name);
\* CosmosResourceNotFoundError becomes None.
get_snippet_by_id(container, name) ==
    LET found == {d \in container : d.id = name /\ PartitionKeyOf(d) = name}
    IN IF found = {} THEN [found |-> FALSE, doc |-> <<>>]
       ELSE [found |-> TRUE, doc |-> CHOOSE d \in found : TRUE]

RECURSIVE Product(_, _)
\* The product of the denominators of the first n components.
Product(e, n) == IF n = 0 THEN 1 ELSE Product(e, n - 1) * e[n].den

\* A vector of fractions scaled to whole numbers (the cosine of two vectors
\* does not change when one of them is scaled by a positive factor).
Scaled(e) == [j \in 1..Len(e) |-> e[j].num * (Product(e, Len(e)) \div e[j].den)]

RECURSIVE Dot(_, _, _)
Dot(a, b, n) == IF n = 0 THEN 0 ELSE Dot(a, b, n - 1) + a[n] * b[n]

\* VectorDistance(c.embedding, @vec) under the container's policy
\* distanceFunction = cosine (line 99).  The components of the model are not
\* negative, so the cosine c is not either, and the score is kept as the
\* fraction c * c, which orders vectors as c does.  With vectors of different
\* lengths, or a zero vector, the function has no value.
VectorDistance(embedding, vec) ==
    LET a == Scaled(embedding)
        b == Scaled(vec)
    IN IF Len(a) # Len(b) \/ Dot(a, a, Len(a)) = 0 \/ Dot(b, b, Len(b)) = 0
       THEN [defined |-> FALSE, num |-> 0, den |-> 1]
       ELSE LET q == Quotient(Dot(a, b, Len(a)) * Dot(a, b, Len(a)),
                              Dot(a, a, Len(a)) * Dot(b, b, Len(b)))
            IN [defined |-> TRUE, num |-> q.num, den |-> q.den]

\* s is at least as similar as t; a score without a value sorts last.
ScoreGeq(s, t) ==
    IF ~t.defined THEN TRUE
    ELSE IF ~s.defined THEN FALSE
    ELSE s.num * t.den >= t.num * s.den

\* SELECT c.id, c.code, VectorDistance(c.embedding, @vec) AS score
Row(d, vec) == [id |-> d.id, code |-> d.code, score |-> VectorDistance(d.embedding, vec)]

\* The query without its WHERE clause.
Candidates_AllProjects(container, project_id) == container

\* FROM c WHERE c.projectId = @pid
Candidates(container, project_id) == {d \in container : d.projectId = project_id}

\* The documents the engine ranks.  The query has no predicate on
\* c.embedding, and the source does not tell what the engine does with a
\* document for which VectorDistance has no value (an empty embedding, or one
\* of another length than @vec): keeps is TRUE for an engine that returns
\* such a document after the others, FALSE for one that leaves it out.
Ranked(cands, vec, keeps) ==
    IF keeps THEN cands ELSE {d \in cands : VectorDistance(d.embedding, vec).defined}

\* The k most similar of the documents docs, most similar first, ties in any
\* order.
TopK(docs, vec, k) ==
    LET n == Min(k, Cardinality(docs))
        score(d) == VectorDistance(d.embedding, vec)
    IN {[i \in 1..n |-> Row(ds[i], vec)] :
          ds \in {x \in [1..n -> docs] :
                    /\ \A i, j \in 1..n : i < j =>
                         /\ x[i] # x[j]
                         /\ ScoreGeq(score(x[i]), score(x[j]))
                    /\ \A d \in docs :
                         (\A i \in 1..n : x[i] # d) =>
                             \A i \in 1..n : ScoreGeq(score(x[i]), score(d))}}

\* query_similar_snippets (lines 279-340): the result lists the query
\* "SELECT TOP @k ... WHERE c.projectId = @pid ORDER BY VectorDistance(...)"
\* may answer with.
query_similar_snippets(container, query_vector, project_id, k) ==
    UNION {TopK(Ranked(Candidates(container, project_id), query_vector, keeps), query_vector, k) :
             keeps \in BOOLEAN}

\* -------------------------------------------------------------- activities

\* The vector the configured embedding deployment answers for a text: a
\* function of the text, of a fixed length.
ModelVector(text) ==
    <<Len(text), Cardinality({i \in 1..Len(text) : text[i] = "x"})>>

\* What the embeddings client does for one call: it raises, or it answers
\* with a response whose embedding may be empty.
EmbedOutcomes == {"raise", "empty", "vector"}

\* embed_chunk_activity (lines 94-143).
embed_chunk_activity(chunk, isConfigured, outcome) ==
    IF chunk.text = <<>> THEN <<>>
    ELSE IF ~isConfigured THEN <<0, 1, 0>>
    ELSE IF outcome = "raise" THEN <<>>
    ELSE IF outcome = "empty" THEN <<>>
    ELSE ModelVector(chunk.text)

\* persist_snippet_activity (lines 147-170): the activity's return value and
\* the container it leaves.
persist_snippet_activity(container, snippet, available) ==
    LET u == upsert_document(container, snippet.name, snippet.projectId, snippet.code,
                             snippet.embedding, snippet.language, snippet.description,
                             available)
    IN IF u.raised
       THEN [container |-> u.container, result |-> [ok |-> FALSE, error |-> "store unavailable"]]
       ELSE [container |-> u.container, result |-> [ok |-> TRUE, id |-> u.result.id]]

\* -------------------------------------------------------------------- state

VARIABLES
    configured, \* EMBEDDING_MODEL_DEPLOYMENT_NAME and PROJECT_CONNECTION_STRING are set
    input,      \* the input of the orchestration instance
    status,     \* "none", "pending", "running", "completed" or "failed"
    scheduled,  \* the activity calls the host has scheduled; task id = position
    completed,  \* task id -> result, for the tasks that have completed
    seen,       \* the events (0 = start, id = completion) earlier episodes processed
    output,     \* the value the generator returned, or the error it raised
    logs,       \* the lines the last episode logged
    store,      \* the documents of the Cosmos container
    response,   \* the status code of the last HTTP response of the starter
    call,       \* the last direct call of the data layer, with what it returned
    connections, \* the cached client, database and container of the data layer
    tasks,      \* the coroutines of the event loop, each with where it is suspended
    blob,       \* the blob of the ingestion container the poller looks at
    env         \* the settings the modules read from the environment at import

vars ==
    <<configured, input, status, scheduled, completed, seen, output, logs, store, response, call,
      connections, tasks, blob, env>>

\* The variables of the event loop, of the ingestion and of the settings.
others == <<connections, tasks, blob, env>>

\* The variables of the orchestration instance.
instance == <<input, status, scheduled, completed, seen, output, logs>>

\* The texts submitted to the orchestration: the empty text, a text of one
\* character, a text of MaxLen characters, whitespace alone and whitespace
\* ahead of code.
BatchTexts == {<<>>, <<"x">>, [i \in 1..MaxLen |-> "x"], <<" ">>, <<" ", "x">>}

\* The payloads submitted to the orchestration.
BatchPayloads == Payloads(BatchTexts, Names \cup {Absent}, {"p1"})

\* The inputs another durable client starts the orchestrator with: the ones
\* the HTTP starter turns down (an input it accepts leads to the run the
\* starter leads to).
ClientPayloads == {p \in BatchPayloads : ~validate_input(p)}

\* A request body that is not JSON: req.get_json() raises.
NotJson == [type |-> "malformed"]

\* Python's None, where the model holds numbers.
None == 0

\* _cosmos_client, _database and _container (cosmos_ops.py lines 26-28) are
\* None at import. A client is a positive number; a database or container
\* reference is the number of the client it was obtained from. closed are
\* the clients whose close() has returned.
NoConnections ==
    [client |-> None, database |-> None, container |-> None, closed |-> {}, created |-> 0]

\* The coroutines the event loop runs side by side.
Coroutines == {"t1", "t2"}

\* A coroutine that runs nothing.
Idle == [op |-> "none", pc |-> "idle"]

\* No blob is in the ingestion container.
NoBlob == [state |-> "none"]

\* The defaults of the settings (bp_multi_agent.py lines 29-31).
MAX_AGENT_ITERATIONS == 3
AGENT_TOKEN_LIMIT == 4000
Settings(max_agent_iterations, enable_content_filter) ==
    [MAX_AGENT_ITERATIONS |-> max_agent_iterations,
     AGENT_TOKEN_LIMIT |-> AGENT_TOKEN_LIMIT,
     ENABLE_CONTENT_FILTER |-> enable_content_filter]

\* The state after the worker has imported the modules under the settings.
Imported(settings) ==
    /\ connections = NoConnections
    /\ tasks = [t \in Coroutines |-> Idle]
    /\ blob = NoBlob
    /\ env = settings

Init ==
    /\ Imported(Settings(MAX_AGENT_ITERATIONS, FALSE))
    /\ configured \in BOOLEAN
    /\ input = [type |-> "null"]
    /\ status = "none"
    /\ scheduled = <<>>
    /\ completed = <<>>
    /\ seen = {}
    /\ output = <<>>
    /\ logs = <<>>
    /\ store = {}
    /\ response = 0
    /\ call = [op |-> "none"]

\* client.start_new("embeddings_orchestrator", None, payload)
start_new(payload) ==
    /\ input' = payload
    /\ status' = "pending"
    /\ UNCHANGED <<scheduled, completed, seen, output, logs>>

\* http_start_embeddings (lines 175-190): the status code it answers with
\* and whether it starts an instance on the body.
http_start_embeddings(body) ==
    IF body = NotJson THEN [status_code |-> 500, start |-> FALSE]
    ELSE IF ~validate_input(body) THEN [status_code |-> 400, start |-> FALSE]
    ELSE [status_code |-> 202, start |-> TRUE]

\* One request to POST orchestrators/embeddings.
HttpStartEmbeddings(body) ==
    /\ status = "none"
    /\ LET r == http_start_embeddings(body) IN
       /\ response' = r.status_code
       /\ IF r.start THEN start_new(body) ELSE UNCHANGED instance
    /\ UNCHANGED <<others, configured, store, call>>

\* Another durable client starts embeddings_orchestrator with an input of
\* its own (the blob ingestion does, bp_ingestion.py line 95).
ClientStartNew(payload) ==
    /\ status = "none"
    /\ start_new(payload)
    /\ UNCHANGED <<others, configured, store, response, call>>

\* The context of the next episode.
Context == [input |-> input, completed |-> completed, seen |-> seen]

\* The events the host has recorded for the instance.
Events == {0} \cup DOMAIN completed

\* One episode: the host runs the generator from its first line with the
\* history it has, schedules the calls the generator made beyond the ones
\* already scheduled, and records where the generator stopped.
OrchestratorEpisode ==
    /\ status \in {"pending", "running"}
    /\ seen # Events
    /\ LET e == embeddings_orchestrator(Context) IN
       /\ scheduled' = IF Len(e.calls) > Len(scheduled)
                       THEN scheduled \o SubSeq(e.calls, Len(scheduled) + 1, Len(e.calls))
                       ELSE scheduled
       /\ status' = e.status
       /\ output' = e.output
       /\ logs' = e.logs
    /\ seen' = Events
    /\ UNCHANGED <<others, configured, input, completed, store, response, call>>

\* A completion the host does not record in the history.
Complete_Lost(id, result) == completed' = completed

\* The host records the completion of task id in the history.
Complete(id, result) ==
    completed' = [i \in DOMAIN completed \cup {id} |-> IF i = id THEN result ELSE completed[i]]

InFlight == {id \in 1..Len(scheduled) : id \notin DOMAIN completed}

\* A scheduled embed_chunk_activity runs to its end.
EmbedChunk(id, outcome) ==
    /\ id \in InFlight
    /\ scheduled[id].name = "embed_chunk_activity"
    /\ Complete(id, embed_chunk_activity(scheduled[id].input, configured, outcome))
    /\ UNCHANGED <<others, configured, input, status, scheduled, seen, output, logs, store, response, call>>

\* A scheduled persist_snippet_activity runs to its end.
PersistSnippet(id, available) ==
    /\ id \in InFlight
    /\ scheduled[id].name = "persist_snippet_activity"
    /\ LET p == persist_snippet_activity(store, scheduled[id].input, available) IN
       /\ store' = p.container
       /\ Complete(id, p.result)
    /\ UNCHANGED <<others, configured, input, status, scheduled, seen, output, logs, response, call>>

Next ==
    \/ status = "none" /\ \E body \in BatchPayloads \cup {NotJson} : HttpStartEmbeddings(body)
    \/ status = "none" /\ \E payload \in ClientPayloads : ClientStartNew(payload)
    \/ OrchestratorEpisode
    \/ \E id \in 1..Len(scheduled), outcome \in EmbedOutcomes : EmbedChunk(id, outcome)
    \/ \E id \in 1..Len(scheduled), available \in BOOLEAN : PersistSnippet(id, available)

Spec == Init /\ [][Next]_vars

\* The durable task host under fairness: an episode that has events to
\* process is run, and a scheduled activity runs to its end.
Activity ==
    \/ \E id \in 1..Len(scheduled), outcome \in EmbedOutcomes : EmbedChunk(id, outcome)
    \/ \E id \in 1..Len(scheduled), available \in BOOLEAN : PersistSnippet(id, available)

LiveNext ==
    \/ status = "none" /\ \E body \in BatchPayloads \cup {NotJson} : HttpStartEmbeddings(body)
    \/ OrchestratorEpisode
    \/ Activity

\* The host resumes the generator: the step of OrchestratorEpisode, told by
\* what it does to seen (no other action changes seen, and
\* OrchestratorEpisode is enabled exactly when the first two conjuncts hold).
ResumeOrchestrator ==
    /\ status \in {"pending", "running"}
    /\ seen # Events
    /\ seen' = Events

LiveSpec ==
    Init /\ [][LiveNext]_vars /\ WF_seen(ResumeOrchestrator) /\ WF_vars(Activity)

\* ------------------------------------------------- the data layer, directly

\* Largest k of a similarity search.
MaxK == 2

\* The arguments the callers of the data layer pass.
CodeArgs == {<<"x">>, <<"x", "x">>}
EmbeddingArgs == {<<>>, <<Float(1), Float(0)>>, <<Float(1), Float(1)>>}
QueryVectors == {<<Float(1), Float(0)>>, <<Float(0), Float(1)>>}

\* The previous direct call was an upsert with these arguments, and it
\* returned.
SameUpsert(name, project_id, code, embedding) ==
    /\ call.op = "upsert"
    /\ ~call.raised
    /\ call.name = name /\ call.project_id = project_id
    /\ call.code = code /\ call.embedding = embedding

\* await cosmos_ops.upsert_document(name=name, project_id=project_id,
\* code=code, embedding=embedding_vector): the direct callers (bp_snippy.py
\* lines 172 and 252) pass neither language nor description.
UpsertDocument(name, project_id, code, embedding, available) ==
    LET u == upsert_document(store, name, project_id, code, embedding, Absent, Absent,
                             available)
    IN /\ store' = u.container
       /\ call' = [op |-> "upsert", name |-> name, project_id |-> project_id, code |-> code,
                   embedding |-> embedding, raised |-> u.raised, result |-> u.result,
                   again |-> SameUpsert(name, project_id, code, embedding)]
       /\ UNCHANGED <<others, configured, instance, response>>

\* await cosmos_ops.list_snippets_by_project(project_id)
ListSnippetsByProject(project_id) ==
    /\ call' = [op |-> "list", project_id |-> project_id,
                result |-> list_snippets_by_project(store, project_id)]
    /\ UNCHANGED <<others, configured, instance, store, response>>

\* await cosmos_ops.get_snippet_by_id(name)
GetSnippetById(name) ==
    /\ call' = [op |-> "get", name |-> name, result |-> get_snippet_by_id(store, name)]
    /\ UNCHANGED <<others, configured, instance, store, response>>

\* await cosmos_ops.query_similar_snippets(query_vector, project_id=..., k=...)
QuerySimilarSnippets(query_vector, project_id, k) ==
    /\ \E result \in query_similar_snippets(store, query_vector, project_id, k) :
         call' = [op |-> "query", query_vector |-> query_vector, project_id |-> project_id,
                  k |-> k, result |-> result]
    /\ UNCHANGED <<others, configured, instance, store, response>>

StoreInit == Init /\ configured

StoreNext ==
    \/ \E name \in Names, project_id \in Projects, code \in CodeArgs,
          embedding \in EmbeddingArgs, available \in BOOLEAN :
            UpsertDocument(name, project_id, code, embedding, available)
    \/ \E project_id \in Projects : ListSnippetsByProject(project_id)
    \/ \E name \in Names : GetSnippetById(name)
    \/ \E query_vector \in QueryVectors, project_id \in Projects, k \in 1..MaxK :
            QuerySimilarSnippets(query_vector, project_id, k)

\* The data layer under the direct calls of its callers.
StoreSpec == StoreInit /\ [][StoreNext]_vars

\* --------------------------------------------------------- the query service

\* TOP_K = int(os.environ.get("VECTOR_TOP_K", os.environ.get("COSMOS_VECTOR_TOP_K", "5")))
TOP_K == 5

\* str(e) of the exceptions the capabilities raise: a message, or the empty
\* string (asyncio.TimeoutError() and ValueError() print as "").
ErrorMessages == {"boom", ""}

\* json.dumps(results) and json.dumps({"error": str(e)}): the JSON text of a
\* list of rows, and of a mapping with the one key "error".
JsonList(rows) == [json |-> "list", items |-> rows]
JsonError(message) == [json |-> "dict", error |-> message]

\* The vector the embeddings deployment answers for the query text.
QueryVector(query) == [j \in 1..Len(ModelVector(query)) |-> Float(ModelVector(query)[j])]

\* What one run of vector_search leaves: whether it raised, the JSON text it
\* returned, and which capabilities it called.
Searched(raised, raw, embedded, searched) ==
    [raised |-> raised, raw |-> raw, embedded |-> embedded, searched |-> searched]

\* vector_search (lines 29-91): the runs it can make.  outcome is what the
\* embeddings client does, available is FALSE when query_similar_snippets
\* raises, message is str(e) of the exception caught at line 84.
vector_search(container, query, k, project_id, isConfigured, outcome, available, message) ==
    IF ~isConfigured THEN {Searched(TRUE, [json |-> "none"], FALSE, FALSE)}
    ELSE IF outcome = "raise" THEN {Searched(FALSE, JsonError(message), TRUE, FALSE)}
    ELSE IF outcome = "empty"
    THEN {Searched(FALSE, JsonError("Failed to generate embedding."), TRUE, FALSE)}
    ELSE IF ~available THEN {Searched(FALSE, JsonError(message), TRUE, TRUE)}
    ELSE {Searched(FALSE, JsonList(results), TRUE, TRUE) :
            results \in query_similar_snippets(container, QueryVector(query), project_id, k)}

\* What the chat deployment does for one call: the mock of DISABLE_OPENAI,
\* no model configured, an exception, a response without choices, or a
\* response with a text.
ChatOutcomes ==
    {[kind |-> "mock"], [kind |-> "unconfigured"], [kind |-> "no_choices"]} \cup
    {[kind |-> "raise", error |-> m] : m \in ErrorMessages} \cup
    {[kind |-> "text", text |-> t] : t \in {"", "an answer"}}

\* A usage mapping: the keys "mock" and "error", each with its value or
\* absent.
Usage(mock, error) == [mock |-> mock, error |-> error]

\* _chat_complete (lines 79-107): the pair (text, usage) it returns.
chat_complete(chat) ==
    IF chat.kind = "mock" THEN <<"This is a mocked answer.", Usage("True", Absent)>>
    ELSE IF chat.kind = "unconfigured"
    THEN <<"Model or connection not configured.", Usage(Absent, "True")>>
    ELSE IF chat.kind = "raise" THEN <<"", Usage(Absent, chat.error)>>
    ELSE IF chat.kind = "no_choices" THEN <<"", Usage(Absent, Absent)>>
    ELSE <<chat.text, Usage(Absent, Absent)>>

\* The citation of the best row alone.
Citations_Top1(results) ==
    [i \in 1..Min(1, Len(results)) |-> [id |-> results[i].id, score |-> results[i].score]]

\* citations = [{"id": r.get("id"), "score": r.get("score")} for r in results]
Citations(results) == [i \in 1..Len(results) |-> [id |-> results[i].id, score |-> results[i].score]]

\* contexts = [r.get("code", "") for r in results]
Contexts(results) == [i \in 1..Len(results) |-> results[i].code]

\* vector_search was not called.
NotSearched == Searched(FALSE, [json |-> "none"], FALSE, FALSE)

\* What one request to http_query leaves: the response (status code and
\* body), what vector_search did, whether _chat_complete was called, and the
\* project the request was scoped to.
Answered(status_code, body, search, generated, project_id) ==
    [op |-> "http_query", status_code |-> status_code, body |-> body,
     search |-> search, generated |-> generated, project_id |-> project_id]

\* The body of an error response: json.dumps({"error": ...}).
ErrorBody(error) == [kind |-> "error", error |-> error]

\* Lines 58-76, from the return of vector_search on.  A mapping whose "error"
\* is the empty string passes the test of line 59, and the comprehension of
\* line 62 then iterates over its key, a string: r.get raises AttributeError.
Respond(v, project_id, chat) ==
    IF v.raised
    THEN Answered(500, ErrorBody("Required environment variables not configured."),
                  v, FALSE, project_id)
    ELSE IF v.raw.json = "dict" /\ v.raw.error # ""
    THEN Answered(502, ErrorBody(v.raw.error), v, FALSE, project_id)
    ELSE IF v.raw.json = "dict"
    THEN Answered(500, ErrorBody("'str' object has no attribute 'get'"), v, FALSE, project_id)
    ELSE LET results == v.raw.items
             c == chat_complete(chat)
         IN Answered(200,
                     [kind |-> "answer", answer |-> c[1], citations |-> Citations(results),
                      usage |-> c[2]],
                     v, TRUE, project_id)

\* http_query (lines 43-76): the responses it can give to one request.
http_query(container, body, isConfigured, outcome, available, message, chat) ==
    IF body.type # "dict" \/ body.question.type = "number"
    THEN {Answered(500, ErrorBody("exception"), NotSearched, FALSE, Absent)}
    ELSE
    LET question == Strip(IF body.question.type = "absent" THEN <<>> ELSE body.question.text)
        project_id == Get(body.projectId, "default-project")
    IN
    IF question = <<>>
    THEN {Answered(400, ErrorBody("question is required"), NotSearched, FALSE, project_id)}
    ELSE {Respond(v, project_id, chat) :
            v \in vector_search(container, question, TOP_K, project_id, isConfigured, outcome,
                                available, message)}

\* The values under the key "question": missing, not a string, or a string.
Questions ==
    {[type |-> "absent"], [type |-> "number"]} \cup
    {[type |-> "str", text |-> t] : t \in {<<>>, <<" ">>, <<"x">>, <<" ", "x", " ">>}}

\* The bodies of the requests to POST query.
QueryBodies ==
    {NotJson, [type |-> "null"], [type |-> "string"]} \cup
    {[type |-> "dict", question |-> q, projectId |-> p] :
        q \in Questions, p \in Projects \cup {Absent}}

\* One request to POST query.
HttpQuery(body, outcome, available, message, chat) ==
    /\ \E r \in http_query(store, body, configured, outcome, available, message, chat) :
         call' = r @@ [request |-> body, chat |-> chat]
    /\ UNCHANGED <<others, configured, instance, store, response>>

\* What the capabilities do during one request, as (outcome, available,
\* message, chat): the embedding fails, or the search fails, or both succeed
\* and the chat deployment is called.  An argument the run never reads is
\* fixed.
QueryRuns ==
    {<<"raise", TRUE, m, [kind |-> "mock"]>> : m \in ErrorMessages} \cup
    {<<"empty", TRUE, "", [kind |-> "mock"]>>} \cup
    {<<"vector", FALSE, m, [kind |-> "mock"]>> : m \in ErrorMessages} \cup
    {<<"vector", TRUE, "", chat>> : chat \in ChatOutcomes}

QueryNext ==
    \/ \E name \in Names, project_id \in Projects, embedding \in EmbeddingArgs :
            UpsertDocument(name, project_id, <<"x">>, embedding, TRUE)
    \/ \E body \in QueryBodies, run \in QueryRuns :
            HttpQuery(body, run[1], run[2], run[3], run[4])

\* The query service over a store the direct saves fill.
QuerySpec == Init /\ [][QueryNext]_vars

\* ------------------------------------------- the pure functions, directly

\* Largest chunk size tried.
MaxSize == 4
\* Largest number of per-chunk vectors in one aggregation.
MaxChunks == 3

\* The results of embed_chunk_activity the aggregation is fed: the empty
\* vector of a failed call and vectors of one, two and three components.
ChunkVectors == {<<>>, <<1>>, <<1, 2>>, <<3, 4>>, <<0, 1, 0>>}

\* The values under the key "name": missing, a non-string, the empty string
\* or a name.
NameValues == {Absent, NotAString, "", "a"}

\* The payloads validate_input is called on.
ValidatePayloads == Payloads(BatchTexts, NameValues, {"p1"})

\* The chunk list of a text for a chunk size.
ChunkText(text, size) ==
    /\ call' = [op |-> "chunk", text |-> text, size |-> size, result |-> ChunkList(text, size)]
    /\ UNCHANGED <<others, configured, instance, store, response>>

\* The aggregation of a list of per-chunk vectors.
AggregateVectors(embeddings) ==
    /\ call' = [op |-> "aggregate", embeddings |-> embeddings, result |-> Aggregate(embeddings)]
    /\ UNCHANGED <<others, configured, instance, store, response>>

\* validate_input(payload)
ValidateInput(payload) ==
    /\ call' = [op |-> "validate", input |-> payload, result |-> validate_input(payload)]
    /\ UNCHANGED <<others, configured, instance, store, response>>

\* The functions keep no state: one application per behaviour reaches every
\* result.
FunctionNext ==
    \/ call.op = "none" /\ \E text \in Texts, size \in 1..MaxSize : ChunkText(text, size)
    \/ call.op = "none" /\
         \E embeddings \in SeqsUpTo(ChunkVectors, MaxChunks) : AggregateVectors(embeddings)
    \/ call.op = "none" /\ \E payload \in ValidatePayloads : ValidateInput(payload)

\* The chunking, the aggregation and the validation applied to every input
\* within the bounds.
FunctionSpec == StoreInit /\ [][FunctionNext]_vars

\* -------------------------------------------- the data layer, concurrently

\* Largest number of clients the module creates.
MaxClients == 2

\* get_cosmos_client (lines 31-41): the cache it leaves. It awaits nothing.
get_cosmos_client(c) ==
    IF c.client = None
    THEN [c EXCEPT !.client = c.created + 1, !.created = c.created + 1]
    ELSE c

\* The coroutine calls a method of an object of client ref and is suspended
\* until the call returns; on_closed records that the client was closed
\* when the call was made.
Await(c, task, pc, ref) ==
    [connections |-> c,
     task |-> [task EXCEPT !.pc = pc, !.ref = ref,
                           !.on_closed = task.on_closed \/ ref \in c.closed]]

\* The operation of the coroutine on the container it got from
\* get_container: container.upsert_item (line 182) or container.query_items
\* (line 316).
Operation(c, task, container) ==
    Await(c, task, IF task.op = "upsert" THEN "upsert_item" ELSE "query_items", container)

\* get_container (lines 57-114) from its first line, with get_database
\* (lines 44-53), up to the first call that suspends the coroutine.
get_container(c, task) ==
    IF c.container # None THEN Operation(c, task, c.container)
    ELSE IF c.database # None
    THEN Await(c, task, "create_container_if_not_exists", c.database)
    ELSE LET g == get_cosmos_client(c)
         IN Await(g, task, "create_database_if_not_exists", g.client)

\* close_connections (lines 118-128) up to the call of close().
close_connections(c, task) ==
    IF c.client # None THEN Await(c, task, "close", c.client)
    ELSE [connections |-> c, task |-> [task EXCEPT !.pc = "done"]]

\* The coroutine leaves with an exception: upsert_document re-raises it
\* (lines 188-190), vector_search turns it into an error payload and runs
\* its finally block (vector_search.py lines 84-91).
Raised(c, task) ==
    IF task.op = "upsert"
    THEN [connections |-> c, task |-> [task EXCEPT !.pc = "done", !.raised = TRUE]]
    ELSE close_connections(c, [task EXCEPT !.raised = TRUE])

\* A coroutine that has not reached its first await.
Started(op, name, project_id, code, concurrent) ==
    [op |-> op, pc |-> "start", ref |-> None, on_closed |-> FALSE, raised |-> FALSE,
     name |-> name, project_id |-> project_id, code |-> code, concurrent |-> concurrent]

InLoop(t) == tasks[t].pc \notin {"idle", "done"}

\* get_cosmos_client can create the client it may have to create.
CanConnect == connections.client # None \/ connections.created < MaxClients

Resume(t, r) ==
    /\ connections' = r.connections
    /\ tasks' = [tasks EXCEPT ![t] = r.task]

\* A document built from the arguments of another call.
LocalDocument_Shared(ts, t) ==
    LET u == CHOOSE x \in DOMAIN ts : x # t
    IN Document(ts[t].name, ts[t].project_id,
                IF ts[u].op = "upsert" THEN ts[u].code ELSE ts[t].code,
                <<Float(1), Float(0)>>, Absent, Absent)

\* document = {...} (lines 166-176): the document is a local of the call,
\* built from the call's arguments.
LocalDocument(ts, t) ==
    Document(ts[t].name, ts[t].project_id, ts[t].code, <<Float(1), Float(0)>>, Absent, Absent)

\* A caller awaits upsert_document(name, project_id, code, embedding): the
\* coroutine runs to the first await of get_container.
BeginUpsert(t, name, project_id, code) ==
    /\ tasks[t].pc = "idle"
    /\ CanConnect
    /\ Resume(t, get_container(connections,
                   Started("upsert", name, project_id, code,
                           \E u \in Coroutines : u # t /\ InLoop(u))))
    /\ UNCHANGED <<configured, instance, store, response, call, blob, env>>

\* A caller awaits vector_search(query, k, project_id): the settings are
\* checked outside the try block (lines 36-40), then the embedding is awaited.
BeginSearch(t, project_id) ==
    /\ tasks[t].pc = "idle"
    /\ LET task == Started("search", Absent, project_id, Absent,
                           \E u \in Coroutines : u # t /\ InLoop(u))
       IN tasks' = [tasks EXCEPT ![t] =
                       IF configured THEN [task EXCEPT !.pc = "embed"]
                       ELSE [task EXCEPT !.pc = "done", !.raised = TRUE]]
    /\ UNCHANGED <<configured, instance, store, response, call, connections, blob, env>>

\* embeddings_client.embed returns to vector_search, which goes on to
\* query_similar_snippets (line 74), or raises.
Embedded(t, ok) ==
    /\ tasks[t].pc = "embed"
    /\ CanConnect
    /\ Resume(t, IF ok THEN get_container(connections, tasks[t])
                 ELSE Raised(connections, tasks[t]))
    /\ UNCHANGED <<configured, instance, store, response, call, blob, env>>

\* client.create_database_if_not_exists returns (line 52): the database is
\* cached and get_container goes on to create the container.
DatabaseCreated(t) ==
    /\ tasks[t].pc = "create_database_if_not_exists"
    /\ Resume(t, IF tasks[t].on_closed THEN Raised(connections, tasks[t])
                 ELSE Await([connections EXCEPT !.database = tasks[t].ref], tasks[t],
                            "create_container_if_not_exists", tasks[t].ref))
    /\ UNCHANGED <<configured, instance, store, response, call, blob, env>>

\* database.create_container_if_not_exists returns (line 104): the container
\* is cached and returned, and the caller calls its operation on it.
ContainerCreated(t) ==
    /\ tasks[t].pc = "create_container_if_not_exists"
    /\ Resume(t, IF tasks[t].on_closed THEN Raised(connections, tasks[t])
                 ELSE Operation([connections EXCEPT !.container = tasks[t].ref], tasks[t],
                                tasks[t].ref))
    /\ UNCHANGED <<configured, instance, store, response, call, blob, env>>

\* container.upsert_item returns (line 182).
Upserted(t) ==
    /\ tasks[t].pc = "upsert_item"
    /\ IF tasks[t].on_closed
       THEN Resume(t, Raised(connections, tasks[t])) /\ UNCHANGED store
       ELSE /\ store' = upsert_item(store, LocalDocument(tasks, t))
            /\ tasks' = [tasks EXCEPT ![t].pc = "done"]
            /\ UNCHANGED connections
    /\ UNCHANGED <<configured, instance, response, call, blob, env>>

\* container.query_items returns: vector_search returns its payload through
\* the finally block (lines 88-91).
Queried(t) ==
    /\ tasks[t].pc = "query_items"
    /\ Resume(t, IF tasks[t].on_closed THEN Raised(connections, tasks[t])
                 ELSE close_connections(connections, tasks[t]))
    /\ UNCHANGED <<configured, instance, store, response, call, blob, env>>

\* _cosmos_client.close() returns (line 124): the three references are reset
\* (lines 125-127).
Closed(t) ==
    /\ tasks[t].pc = "close"
    /\ connections' = [connections EXCEPT !.client = None, !.database = None,
                                          !.container = None,
                                          !.closed = @ \cup {tasks[t].ref}]
    /\ tasks' = [tasks EXCEPT ![t].pc = "done"]
    /\ UNCHANGED <<configured, instance, store, response, call, blob, env>>

\* The caller has its result and the coroutine is gone.
Finished(t) ==
    /\ tasks[t].pc = "done"
    /\ tasks' = [tasks EXCEPT ![t] = Idle]
    /\ UNCHANGED <<configured, instance, store, response, call, connections, blob, env>>

\* Calls of upsert_document side by side.
UpsertsNext ==
    \E t \in Coroutines :
        \/ \E name \in Names, project_id \in Projects, code \in CodeArgs :
              BeginUpsert(t, name, project_id, code)
        \/ DatabaseCreated(t)
        \/ ContainerCreated(t)
        \/ Upserted(t)

UpsertsSpec == StoreInit /\ [][UpsertsNext]_vars

\* Calls of upsert_document and of vector_search side by side.
ConnectionsNext ==
    \E t \in Coroutines :
        \/ BeginUpsert(t, "a", "p1", <<"x">>)
        \/ BeginSearch(t, "p1")
        \/ \E ok \in BOOLEAN : Embedded(t, ok)
        \/ DatabaseCreated(t)
        \/ ContainerCreated(t)
        \/ Upserted(t)
        \/ Queried(t)
        \/ Closed(t)
        \/ Finished(t)

ConnectionsSpec == StoreInit /\ [][ConnectionsNext]_vars

\* ------------------------------------------------------ the snippet endpoints

\* The empty mapping {}.
EmptyDoc == <<>>

\* What a caller of the data layer gets from an operation that ends in
\* "except Exception: ... raise" (lines 188-190, 219-221, 238-240, 273-275):
\* the value, or the exception when the store fails.
Try(available, value) ==
    IF available THEN [raised |-> FALSE, value |-> value]
    ELSE [raised |-> TRUE, value |-> <<>>]

\* list_all_snippets (lines 194-221): the rows of the query
\* "... WHERE c.type = 'code-snippet'".
list_all_snippets(container) == {Listed(d) : d \in {x \in container : x.type = "code-snippet"}}

\* load_snippet_activity (bp_multi_agent.py lines 116-133): the mapping it
\* returns.
load_snippet_activity(container, data, available) ==
    LET name == IF data.name = Absent THEN "" ELSE data.name
    IN IF name = "" THEN EmptyDoc
       ELSE LET doc == Try(available, get_snippet_by_id(container, name))
            IN IF doc.raised THEN EmptyDoc
               ELSE IF doc.value.found THEN doc.value.doc ELSE EmptyDoc

\* http_save_snippet (bp_snippy.py lines 126-190): the response and the
\* container it leaves. req_body is the mapping of the request; embeddings
\* is what the embeddings input binding hands over: a text that parses to a
\* response with a vector, or one that does not.
http_save_snippet(container, req_body, embeddings, available) ==
    IF ~({"name", "code"} \subseteq DOMAIN req_body)
    THEN [status_code |-> 400, body |-> "Missing required field", container |-> container]
    ELSE IF ~embeddings.parses
    THEN [status_code |-> 500, body |-> "Invalid embeddings data or structure",
          container |-> container]
    ELSE LET project_id == IF "projectId" \in DOMAIN req_body THEN req_body.projectId
                           ELSE DEFAULT_PROJECT_ID
             u == upsert_document(container, req_body.name, project_id, req_body.code,
                                  embeddings.embedding, Absent, Absent, available)
         IN IF u.raised
            THEN [status_code |-> 500, body |-> "Invalid embeddings data or structure",
                  container |-> container]
            ELSE [status_code |-> 200, body |-> u.result, container |-> u.container]

\* http_list_snippets (bp_snippy.py lines 282-302).
http_list_snippets(container, projectId, available) ==
    LET snippets == Try(available, IF projectId # Absent /\ projectId # ""
                                   THEN list_snippets_by_project(container, projectId)
                                   ELSE list_all_snippets(container))
    IN IF snippets.raised THEN [status_code |-> 500, body |-> "error"]
       ELSE [status_code |-> 200, body |-> snippets.value]

\* http_get_snippet (bp_snippy.py lines 309-339).
http_get_snippet(container, name, available) ==
    IF name = Absent \/ name = ""
    THEN [status_code |-> 400, body |-> "Missing snippet name in route"]
    ELSE LET snippet == Try(available, get_snippet_by_id(container, name))
         IN IF snippet.raised THEN [status_code |-> 500, body |-> "error"]
            ELSE IF ~snippet.value.found \/ snippet.value.doc = EmptyDoc
            THEN [status_code |-> 404, body |-> "Snippet not found"]
            ELSE [status_code |-> 200, body |-> snippet.value.doc]

\* One request to POST snippets.
HttpSaveSnippet(req_body, embeddings, available) ==
    LET r == http_save_snippet(store, req_body, embeddings, available)
    IN /\ store' = r.container
       /\ call' = [op |-> "http_save_snippet", req_body |-> req_body, embedding |-> embeddings,
                   available |-> available, status_code |-> r.status_code, body |-> r.body]
       /\ UNCHANGED <<others, configured, instance, response>>

\* One request to GET snippets.
HttpListSnippets(projectId, available) ==
    LET r == http_list_snippets(store, projectId, available)
    IN /\ call' = [op |-> "http_list_snippets", projectId |-> projectId,
                   available |-> available, status_code |-> r.status_code, body |-> r.body]
       /\ UNCHANGED <<others, configured, instance, store, response>>

\* One request to GET snippets/{name}.
HttpGetSnippet(name, available) ==
    LET r == http_get_snippet(store, name, available)
    IN /\ call' = [op |-> "http_get_snippet", name |-> name, available |-> available,
                   status_code |-> r.status_code, body |-> r.body]
       /\ UNCHANGED <<others, configured, instance, store, response>>

\* One run of load_snippet_activity.
LoadSnippet(name, available) ==
    /\ call' = [op |-> "load_snippet_activity", name |-> name, available |-> available,
                result |-> load_snippet_activity(store, [name |-> name], available)]
    /\ UNCHANGED <<others, configured, instance, store, response>>

\* The bodies of the requests to POST snippets.
SaveBodies ==
    {[name |-> n, code |-> <<"x">>, projectId |-> p] : n \in Names, p \in Projects}
    \cup {[name |-> n, code |-> <<"x">>] : n \in Names}
    \cup {[name |-> "a"], [code |-> <<"x">>]}

\* What the embeddings input binding hands to http_save_snippet.
SaveEmbeddings ==
    {[parses |-> TRUE, embedding |-> v] :
        v \in {<<Float(1), Float(0)>>, <<Float(0), Float(1), Float(0)>>}}
    \cup {[parses |-> FALSE]}

EndpointNext ==
    \/ \E req_body \in SaveBodies, embeddings \in SaveEmbeddings, available \in BOOLEAN :
            HttpSaveSnippet(req_body, embeddings, available)
    \/ \E projectId \in Projects \cup {Absent}, available \in BOOLEAN :
            HttpListSnippets(projectId, available)
    \/ \E name \in Names \cup {Absent, ""}, available \in BOOLEAN : HttpGetSnippet(name, available)
    \/ \E name \in Names \cup {Absent, ""}, available \in BOOLEAN : LoadSnippet(name, available)

\* The HTTP endpoints of the snippets and the loader of the agents.
EndpointSpec == StoreInit /\ [][EndpointNext]_vars

\* ------------------------------------------------------- the blob ingestion

\* MAX_BLOB_MB (bp_ingestion.py line 22), in megabytes.
MAX_BLOB_MB == 2

\* The extensions process_blob takes (line 59).
SupportedExtensions ==
    {".md", ".txt", ".py", ".js", ".ts", ".java", ".cpp", ".c", ".cs", ".go", ".rs", ".rb",
     ".php", ".sh", ".sql", ".json", ".xml", ".yaml", ".yml"}

\* str.lower() on the extensions of the blobs of the model.
LowerExtension(ext) == IF ext = ".PY" THEN ".py" ELSE ext

\* The blobs dropped into the ingestion container: a name (stem and
\* extension), a size in megabytes and the text the content decodes to.
Blobs ==
    [stem : {"a"}, ext : {".py", ".PY", ".exe"}, size_mb : {MAX_BLOB_MB, MAX_BLOB_MB + 1},
     text : {<<>>, <<" ">>, <<"x">>, <<" ", "x">>}]

\* The payload process_blob starts the orchestration with (lines 87-91).
BlobPayload(b) ==
    [type |-> "dict", projectId |-> DEFAULT_PROJECT_ID, snippets |-> [type |-> "absent"],
     name |-> <<b.stem, b.ext>>, text |-> b.text]

\* process_blob (lines 41-108): whether it deletes the blob and whether it
\* starts an orchestration; start_ok is FALSE when starter.start_new raises.
process_blob(b, start_ok) ==
    IF b.size_mb > MAX_BLOB_MB THEN [delete |-> TRUE, start |-> FALSE]
    ELSE IF LowerExtension(b.ext) \notin SupportedExtensions
    THEN [delete |-> TRUE, start |-> FALSE]
    ELSE IF Strip(b.text) = <<>> THEN [delete |-> TRUE, start |-> FALSE]
    ELSE IF ~start_ok THEN [delete |-> FALSE, start |-> FALSE]
    ELSE [delete |-> TRUE, start |-> TRUE]

\* A file is dropped into the ingestion container.
UploadBlob(b) ==
    /\ blob.state = "none"
    /\ blob' = [state |-> "present", file |-> b, started |-> FALSE]
    /\ UNCHANGED <<configured, instance, store, response, call, connections, tasks, env>>

\* poll_ingestion_container (lines 26-37) runs process_blob on the blob; an
\* exception of process_blob is logged and the blob stays for the next
\* trigger.
PollIngestionContainer(start_ok) ==
    /\ blob.state = "present"
    /\ status = "none"
    /\ LET p == process_blob(blob.file, start_ok) IN
       /\ blob' = [blob EXCEPT !.state = IF p.delete THEN "deleted" ELSE "present",
                               !.started = p.start]
       /\ IF p.start THEN start_new(BlobPayload(blob.file)) ELSE UNCHANGED instance
    /\ UNCHANGED <<configured, store, response, call, connections, tasks, env>>

\* A body POST orchestrators/embeddings accepts.
IngestBody ==
    [type |-> "dict", projectId |-> "p1",
     snippets |-> [type |-> "list",
                   items |-> <<[type |-> "dict", name |-> "a",
                                code |-> [type |-> "str", text |-> <<"x">>],
                                language |-> Absent, description |-> Absent]>>]]

IngestionNext ==
    \/ \E b \in Blobs : UploadBlob(b)
    \/ \E start_ok \in BOOLEAN : PollIngestionContainer(start_ok)
    \/ status = "none" /\ HttpStartEmbeddings(IngestBody)
    \/ OrchestratorEpisode
    \/ \E id \in 1..Len(scheduled), outcome \in EmbedOutcomes : EmbedChunk(id, outcome)
    \/ \E id \in 1..Len(scheduled), available \in BOOLEAN : PersistSnippet(id, available)

\* The ingestion of blobs next to the HTTP starter.
IngestionSpec == Init /\ [][IngestionNext]_vars

\* ------------------------------------------------ save_snippet_orchestrator

\* How a task ended: with a value, or with an exception.
Succeeded(value) == [failed |-> FALSE, value |-> value]
Failed == [failed |-> TRUE, value |-> <<>>]

\* A barrier that takes a failed task for a completed one.
task_all_Swallow(context, ids) ==
    IF ids \subseteq DOMAIN context.completed THEN "done" ELSE "wait"

\* yield context.task_all(tasks), and yield of a single task: the generator
\* waits ("wait"), is resumed with the results ("done"), or has the
\* exception of a failed task raised at the yield ("raise").
task_all(context, ids) ==
    IF \E id \in ids : id \in DOMAIN context.completed /\ context.completed[id].failed
    THEN "raise"
    ELSE IF ids \subseteq DOMAIN context.completed THEN "done"
    ELSE "wait"

\* The number of components of the dummy embedding (function_app.py line
\* 434 has 1536).
DummyDimensions == 2

\* upload_raw_code_activity (function_app.py lines 403-416).
upload_raw_code_activity(payload) == "dummy-blob-url"

\* generate_embedding_activity (function_app.py lines 419-434).
generate_embedding_activity(code) == [i \in 1..DummyDimensions |-> Float(0)]

\* upsert_document_activity (function_app.py lines 436-455).
upsert_document_activity(payload) ==
    [id |-> payload.name, projectId |-> payload.project_id, code |-> payload.code,
     blobUrl |-> payload.blob_url, embedding |-> payload.embedding]

\* save_snippet_orchestrator (orchestrators.py lines 7-65): one execution of
\* the generator from its first line. A missing key raises KeyError, and
\* every exception is logged and raised again (lines 61-65).
save_snippet_orchestrator(context) ==
    LET payload == context.input IN
    IF ~({"name", "code"} \subseteq DOMAIN payload)
    THEN Episode(<<>>, "failed", "KeyError", <<>>)
    ELSE
    LET name == payload.name
        project_id == IF "projectId" \in DOMAIN payload THEN payload.projectId
                      ELSE DEFAULT_PROJECT_ID
        code == payload.code
        upload == Call("upload_raw_code_activity",
                       [code |-> code, project_id |-> project_id, name |-> name], 0)
        embed == Call("generate_embedding_activity", code, 0)
        calls == <<upload, embed>>
        both == task_all(context, {1, 2})
    IN
    IF both = "wait" THEN Episode(calls, "running", <<>>, <<>>)
    ELSE IF both = "raise" THEN Episode(calls, "failed", "activity failed", <<>>)
    ELSE
    LET blob_url == ResultOf(context, 1).value
        embedding == ResultOf(context, 2).value
        upsert_payload == [name |-> name, project_id |-> project_id, code |-> code,
                           blob_url |-> blob_url, embedding |-> embedding]
        calls1 == Append(calls, Call("upsert_document_activity", upsert_payload, 0))
        upserted == task_all(context, {3})
    IN
    IF upserted = "wait" THEN Episode(calls1, "running", <<>>, <<>>)
    ELSE IF upserted = "raise" THEN Episode(calls1, "failed", "activity failed", <<>>)
    ELSE LET result == ResultOf(context, 3).value
         IN Episode(calls1, "completed",
                    [id |-> result.id, projectId |-> result.projectId, status |-> "completed"],
                    <<>>)

\* http_save_snippet of function_app.py (lines 61-100): the status code, and
\* whether it starts save_snippet_orchestrator on the body.
start_save_snippet(req_body) ==
    IF ~({"name", "projectId", "code"} \subseteq DOMAIN req_body)
    THEN [status_code |-> 400, start |-> FALSE]
    ELSE [status_code |-> 202, start |-> TRUE]

\* The inputs of save_snippet_orchestrator.
SavePayloads ==
    {[name |-> n, projectId |-> p, code |-> c] : n \in Names, p \in Projects, c \in CodeArgs}
    \cup {[name |-> n, code |-> <<"x">>] : n \in Names}
    \cup {[name |-> "a"], [code |-> <<"x">>]}

\* One request to POST snippets of function_app.py.
StartSaveSnippet(req_body) ==
    /\ status = "none"
    /\ LET r == start_save_snippet(req_body) IN
       /\ response' = r.status_code
       /\ IF r.start THEN start_new(req_body) ELSE UNCHANGED instance
    /\ UNCHANGED <<others, configured, store, call>>

\* Another durable client starts save_snippet_orchestrator on an input the
\* HTTP starter turns down.
ClientStartSave(payload) ==
    /\ status = "none"
    /\ ~start_save_snippet(payload).start
    /\ start_new(payload)
    /\ UNCHANGED <<others, configured, store, response, call>>

\* The host records what an execution of the generator leaves.
Recorded(e) ==
    /\ scheduled' = IF Len(e.calls) > Len(scheduled)
                    THEN scheduled \o SubSeq(e.calls, Len(scheduled) + 1, Len(e.calls))
                    ELSE scheduled
    /\ status' = e.status
    /\ output' = e.output
    /\ logs' = e.logs
    /\ seen' = Events

\* One episode of save_snippet_orchestrator.
SaveSnippetEpisode ==
    /\ status \in {"pending", "running"}
    /\ seen # Events
    /\ Recorded(save_snippet_orchestrator(Context))
    /\ UNCHANGED <<others, configured, input, completed, store, response, call>>

\* A scheduled activity of save_snippet_orchestrator runs to its end, or
\* raises.
SaveActivity(id, ok) ==
    /\ id \in InFlight
    /\ LET c == scheduled[id]
           value == CASE c.name = "upload_raw_code_activity" ->
                             Succeeded(upload_raw_code_activity(c.input))
                      [] c.name = "generate_embedding_activity" ->
                             Succeeded(generate_embedding_activity(c.input))
                      [] c.name = "upsert_document_activity" ->
                             Succeeded(upsert_document_activity(c.input))
       IN Complete(id, IF ok THEN value ELSE Failed)
    /\ UNCHANGED <<others, configured, input, status, scheduled, seen, output, logs, store,
                   response, call>>

SaveNext ==
    \/ status = "none" /\ \E req_body \in SavePayloads : StartSaveSnippet(req_body)
    \/ status = "none" /\ \E payload \in SavePayloads : ClientStartSave(payload)
    \/ SaveSnippetEpisode
    \/ \E id \in 1..Len(scheduled), ok \in BOOLEAN : SaveActivity(id, ok)

SaveSpec == Init /\ [][SaveNext]_vars

\* ------------------------------------------------------------- guardrails

\* Largest length of a code text given to the guardrails.
MaxCode == 4

\* str.lower(), character by character.
UpperCase == <<"A", "B", "C", "D", "E", "G", "I", "K", "L", "N", "O", "P", "R", "S", "T", "V", "Y">>
LowerCase == <<"a", "b", "c", "d", "e", "g", "i", "k", "l", "n", "o", "p", "r", "s", "t", "v", "y">>
LowerChar(c) ==
    IF \E i \in 1..Len(UpperCase) : UpperCase[i] = c
    THEN LowerCase[CHOOSE i \in 1..Len(UpperCase) : UpperCase[i] = c]
    ELSE c
Lower(text) == [i \in 1..Len(text) |-> LowerChar(text[i])]

\* w in text
Contains(text, w) ==
    \E i \in 1..(Len(text) - Len(w) + 1) : SubSeq(text, i, i + Len(w) - 1) = w

\* text.replace(w, by): the occurrences of w from the left, not overlapping.
RECURSIVE Replace(_, _, _)
Replace(text, w, by) ==
    IF Len(text) < Len(w) THEN text
    ELSE IF SubSeq(text, 1, Len(w)) = w
    THEN by \o Replace(SubSeq(text, Len(w) + 1, Len(text)), w, by)
    ELSE <<text[1]>> \o Replace(Tail(text), w, by)

\* banned (line 46) and "[REDACTED]" (line 52).
banned ==
    <<<<"D", "R", "O", "P", " ", "T", "A", "B", "L", "E">>,
      <<"r", "m", " ", "-", "r", "f">>,
      <<"B", "E", "G", "I", "N", " ", "R", "S", "A", " ", "P", "R", "I", "V", "A", "T", "E", " ", "K", "E", "Y">>,
      <<"A", "K", "I", "A">>>>
REDACTED == <<"[", "R", "E", "D", "A", "C", "T", "E", "D", "]">>

RECURSIVE ReplaceAll(_, _, _)
\* for w in found: code = code.replace(w, "[REDACTED]") (lines 51-52), from
\* the i-th banned fragment on.
ReplaceAll(code, found, i) ==
    IF i > Len(banned) THEN code
    ELSE ReplaceAll(IF banned[i] \in found THEN Replace(code, banned[i], REDACTED) ELSE code,
                    found, i + 1)

\* max(a, b)
Max(a, b) == IF a > b THEN a ELSE b

\* _apply_guardrails (lines 35-54): the code and the issues it returns.
apply_guardrails(code, token_limit, enable_filter) ==
    LET max_chars == Max(256, token_limit * 4)
        truncated == Len(code) > max_chars
        code1 == IF truncated THEN SubSeq(code, 1, max_chars) ELSE code
        issues1 == IF truncated THEN <<"truncated">> ELSE <<>>
        found == {banned[i] : i \in {j \in 1..Len(banned) :
                                        Contains(Lower(code1), Lower(banned[j]))}}
    IN IF enable_filter /\ found # {}
       THEN [code |-> ReplaceAll(code1, found, 1),
             issues |-> Append(issues1, "content-filter:blocked")]
       ELSE [code |-> code1, issues |-> issues1]

\* The code texts given to the guardrails.
GuardChars == {"A", "K", "I", "a", "k", "x"}
GuardTexts == SeqsUpTo(GuardChars, MaxCode)

\* One call of _apply_guardrails.
ApplyGuardrails(code, enable_filter) ==
    /\ call' = [op |-> "apply_guardrails", code |-> code, enable_filter |-> enable_filter,
                result |-> apply_guardrails(code, env.AGENT_TOKEN_LIMIT, enable_filter)]
    /\ UNCHANGED <<others, configured, instance, store, response>>

GuardNext ==
    call.op = "none" /\ \E code \in GuardTexts, enable_filter \in BOOLEAN :
        ApplyGuardrails(code, enable_filter)

GuardSpec == StoreInit /\ [][GuardNext]_vars

\* ------------------------------------------------- multi_agent_orchestrator

\* context.instance_id
InstanceId == "instance"

\* dict.get(key, default) on a mapping whose keys may be missing.
GetKey(mapping, key, default) == IF key \in DOMAIN mapping THEN mapping[key] ELSE default

\* The input of an agent activity (lines 85 and 91-96).
AgentInput(code, project_id) ==
    [code |-> code, projectId |-> project_id, correlationId |-> InstanceId]

\* An orchestrator that takes the id from "snippetId" alone.
snippet_id_of_Strict(payload) == GetKey(payload, "snippetId", "")

\* snippet_id = payload.get("snippetId", payload.get("name", "")) (line 62)
snippet_id_of(payload) == GetKey(payload, "snippetId", GetKey(payload, "name", ""))

\* multi_agent_orchestrator (lines 57-113): one execution of the generator
\* from its first line under the settings. An exception of an activity is
\* not caught.
multi_agent_orchestrator(context, settings) ==
    LET payload == context.input
        project_id == GetKey(payload, "projectId", DEFAULT_PROJECT_ID)
        snippet_id == snippet_id_of(payload)
    IN
    IF snippet_id = ""
    THEN Episode(<<>>, "completed",
                 [ok |-> FALSE, error |-> "snippetId is required",
                  correlationId |-> InstanceId], <<>>)
    ELSE IF settings.MAX_AGENT_ITERATIONS < 2
    THEN Episode(<<>>, "completed",
                 [ok |-> FALSE, error |-> "MAX_AGENT_ITERATIONS too low",
                  correlationId |-> InstanceId], <<>>)
    ELSE
    LET calls1 == <<Call("load_snippet_activity", [name |-> snippet_id], 0)>>
        loaded == task_all(context, {1})
    IN
    IF loaded = "wait" THEN Episode(calls1, "running", <<>>, <<>>)
    ELSE IF loaded = "raise" THEN Episode(calls1, "failed", "activity failed", <<>>)
    ELSE
    LET snippet == ResultOf(context, 1).value
        code_text == GetKey(snippet, "code", <<>>)
        guarded == apply_guardrails(code_text, settings.AGENT_TOKEN_LIMIT,
                                    settings.ENABLE_CONTENT_FILTER)
        safe_code == guarded.code
        calls2 == Append(calls1, Call("code_review_agent_activity",
                                      AgentInput(safe_code, project_id), 0))
        reviewed == task_all(context, {2})
    IN
    IF reviewed = "wait" THEN Episode(calls2, "running", <<>>, <<>>)
    ELSE IF reviewed = "raise" THEN Episode(calls2, "failed", "activity failed", <<>>)
    ELSE
    LET review == ResultOf(context, 2).value
        calls4 == calls2 \o
                  <<Call("documentation_agent_activity",
                         AgentInput(safe_code, project_id) @@ [review |-> review], 0),
                    Call("testing_agent_activity",
                         AgentInput(safe_code, project_id) @@ [review |-> review], 0)>>
        both == task_all(context, {3, 4})
    IN
    IF both = "wait" THEN Episode(calls4, "running", <<>>, <<>>)
    ELSE IF both = "raise" THEN Episode(calls4, "failed", "activity failed", <<>>)
    ELSE Episode(calls4, "completed",
                 [ok |-> TRUE, correlationId |-> InstanceId, guardrails |-> guarded.issues,
                  agents |-> [review |-> review,
                              documentation |-> ResultOf(context, 3).value,
                              testing |-> ResultOf(context, 4).value]],
                 <<>>)

\* The bodies of the requests to POST orchestrators/multi-agent-review.
AgentPayloads ==
    {[snippetId |-> "a"], [snippetId |-> "a", projectId |-> "p1"], [snippetId |-> "b"],
     [snippetId |-> ""], [snippetId |-> "", name |-> "a"], [name |-> "a"], [name |-> ""],
     [projectId |-> "p1"], [workflow |-> "code-review-and-docs"]}

\* http_start_multi_agent (lines 536-548) starts the orchestrator on the
\* body, whatever the body is.
HttpStartMultiAgent(body) ==
    /\ status = "none"
    /\ response' = 202
    /\ start_new(body)
    /\ UNCHANGED <<others, configured, store, call>>

\* One episode of multi_agent_orchestrator.
MultiAgentEpisode ==
    /\ status \in {"pending", "running"}
    /\ seen # Events
    /\ Recorded(multi_agent_orchestrator(Context, env))
    /\ UNCHANGED <<others, configured, input, completed, store, response, call>>

\* A scheduled load_snippet_activity runs to its end.
LoadSnippetTask(id, available) ==
    /\ id \in InFlight
    /\ scheduled[id].name = "load_snippet_activity"
    /\ Complete(id, Succeeded(load_snippet_activity(store, scheduled[id].input, available)))
    /\ UNCHANGED <<others, configured, input, status, scheduled, seen, output, logs, store,
                   response, call>>

\* What the agents answer.
AgentResults == {"result-1", "result-2"}

\* A scheduled agent activity runs to its end with a result, or raises.
AgentActivity(id, result, ok) ==
    /\ id \in InFlight
    /\ scheduled[id].name \in {"code_review_agent_activity", "documentation_agent_activity",
                               "testing_agent_activity"}
    /\ Complete(id, IF ok THEN Succeeded(result) ELSE Failed)
    /\ UNCHANGED <<others, configured, input, status, scheduled, seen, output, logs, store,
                   response, call>>

\* The worker starts under one of the settings of the agents.
AgentInit ==
    /\ \E m \in 1..MAX_AGENT_ITERATIONS, f \in BOOLEAN : Imported(Settings(m, f))
    /\ configured = TRUE
    /\ input = [type |-> "null"]
    /\ status = "none"
    /\ scheduled = <<>>
    /\ completed = <<>>
    /\ seen = {}
    /\ output = <<>>
    /\ logs = <<>>
    /\ store \in {{}, {Document("a", "p1", <<"x">>, <<>>, Absent, Absent)}}
    /\ response = 0
    /\ call = [op |-> "none"]

AgentNext ==
    \/ status = "none" /\ \E body \in AgentPayloads : HttpStartMultiAgent(body)
    \/ MultiAgentEpisode
    \/ \E id \in 1..Len(scheduled), available \in BOOLEAN : LoadSnippetTask(id, available)
    \/ \E id \in 1..Len(scheduled), result \in AgentResults, ok \in BOOLEAN :
            AgentActivity(id, result, ok)

AgentSpec == AgentInit /\ [][AgentNext]_vars

\* ==================================================================== claims

\* The instance was started on a batch validate_input accepts.
ValidBatch == status # "none" /\ validate_input(input)

\* The number of snippets of the batch.
BatchSize == Len(input.snippets.items)

\* The scheduled embed calls, and the scheduled persist call, of snippet i.
EmbedIds(i) ==
    {id \in 1..Len(scheduled) :
        scheduled[id].name = "embed_chunk_activity" /\ scheduled[id].snip = i}

PersistIds(i) ==
    {id \in 1..Len(scheduled) :
        scheduled[id].name = "persist_snippet_activity" /\ scheduled[id].snip = i}

\* An episode has run on the completion of all embed calls of snippet i.
FanInProcessed(i) ==
    /\ EmbedIds(i) # {}
    /\ EmbedIds(i) \subseteq DOMAIN completed
    /\ EmbedIds(i) \subseteq seen

\* The persist call of snippet i has completed with this value of ok.
PersistResolved(i, ok) ==
    \E id \in PersistIds(i) : id \in DOMAIN completed /\ completed[id].ok = ok

\* ------------------------------------------------------------------------ C1

\* The persistence results the returned value holds: the generator returns
\* one mapping, the value of its variable result.
ReturnedResults == <<output>>

\* C1: when the orchestration of a valid batch of n snippets has completed,
\* the returned value holds n persistence results, the i-th being the result
\* of the persist call of snippet i.
C1_OneResultPerSnippet ==
    (ValidBatch /\ status = "completed") =>
        /\ Len(ReturnedResults) = BatchSize
        /\ \A i \in 1..BatchSize :
             \E id \in PersistIds(i) : ReturnedResults[i] = completed[id]

\* ------------------------------------------------------------------------ C2

\* C2: when all embed calls of a snippet of a valid batch have resolved, some
\* of them to an empty vector, the orchestration has not failed and the
\* persist call of that snippet is scheduled.
C2_EmptyVectorNotFatal ==
    ValidBatch =>
        \A i \in 1..BatchSize :
            (FanInProcessed(i) /\ \E id \in EmbedIds(i) : completed[id] = <<>>) =>
                /\ status # "failed"
                /\ PersistIds(i) # {}

\* ------------------------------------------------------------------------ C3

\* The payloads the validation is meant to turn down: not a mapping,
\* "snippets" missing, not a list or empty, or some element of the list that
\* is not a mapping with a name and a non-blank string code.
Rejected(p) ==
    \/ p.type # "dict"
    \/ p.snippets.type # "list"
    \/ p.snippets.items = <<>>
    \/ \E i \in 1..Len(p.snippets.items) :
         LET snip == p.snippets.items[i] IN
         \/ snip.type # "dict"
         \/ snip.name = Absent
         \/ snip.code.type # "str"
         \/ \A j \in 1..Len(snip.code.text) : snip.code.text[j] \in Whitespace

\* No activity was ever scheduled and nothing was written.
NothingScheduled == scheduled = <<>> /\ completed = <<>> /\ store = {}

\* C3: the HTTP starter answers every rejected body with 400 and starts no
\* instance on it, and an instance started on a rejected input never
\* schedules an activity: it raises in its first episode.
C3_NoFanOutForInvalidBatch ==
    /\ status = "none" =>
         \A body \in BatchPayloads :
            Rejected(body) => http_start_embeddings(body) = [status_code |-> 400, start |-> FALSE]
    /\ response = 202 => status # "none" /\ ~Rejected(input)
    /\ (status # "none" /\ Rejected(input)) =>
         NothingScheduled /\ status \in {"pending", "failed"}

\* An instance whose input has a valid first snippet and an invalid second
\* one has raised without scheduling anything.
C3_Witness ==
    /\ status = "failed"
    /\ input.type = "dict" /\ input.snippets.type = "list"
    /\ Len(input.snippets.items) = 2
    /\ SnippetOk(input.snippets.items[1])
    /\ ~SnippetOk(input.snippets.items[2])
    /\ NothingScheduled

\* ------------------------------------------------------------------------ C4

\* C4: no row a similarity search scoped to project P returns is the row of
\* a stored document of another project.
C4_ProjectIsolation ==
    call.op = "query" =>
        \A i \in 1..Len(call.result) :
            \A d \in store : d.id = call.result[i].id => d.projectId = call.project_id

\* A search has returned a row while the store holds a document of another
\* project.
C4_Witness ==
    /\ call.op = "query"
    /\ Len(call.result) >= 1
    /\ \E d \in store : d.projectId # call.project_id

\* ------------------------------------------------------------------------ C5

\* C5: an upsert under project P2 leaves the stored document of the same
\* name under another project P1 in the store, and the listing of P1 still
\* returns it with its code.
C5_IdsUniquePerProject ==
    [][(call'.op = "upsert" /\ ~call'.raised) =>
         \A d \in store :
            (d.name = call'.name /\ d.projectId # call'.project_id) =>
                /\ d \in store'
                /\ Listed(d) \in list_snippets_by_project(store', d.projectId)]_vars

\* ------------------------------------------------------------------------ C6

\* C6: after upsert_document has returned, the store holds exactly one
\* document with the given name as id, its content is the arguments of the
\* call, and the same call once more leaves the store as it is.
C6_UpsertIdempotent ==
    (call.op = "upsert" /\ ~call.raised) =>
        /\ Cardinality({d \in store : d.id = call.name}) = 1
        /\ \A d \in store :
             d.id = call.name =>
                /\ d.name = call.name /\ d.projectId = call.project_id
                /\ d.code = call.code /\ d.embedding = call.embedding
        /\ upsert_document(store, call.name, call.project_id, call.code, call.embedding,
                           Absent, Absent, TRUE).container = store

\* upsert_document has returned for the second time in a row with the same
\* arguments, in a store that holds another document as well.
C6_Witness ==
    /\ call.op = "upsert" /\ ~call.raised /\ call.again
    /\ Cardinality(store) = 2

\* ------------------------------------------------------------------------ C7

\* C7: once the persist call of snippet i has resolved to ok = false, the
\* orchestration does not fail, the fan-out of the next snippet is scheduled
\* in the episode that processes the failure, and every later snippet gets
\* its persist call once its embed calls have all resolved.
C7_PersistFailureDoesNotAbort ==
    ValidBatch =>
        \A i \in 1..BatchSize :
            (PersistResolved(i, FALSE) /\ PersistIds(i) \subseteq seen) =>
                /\ status # "failed"
                /\ i < BatchSize => EmbedIds(i + 1) # {}
                /\ \A j \in (i + 1)..BatchSize : FanInProcessed(j) => PersistIds(j) # {}

\* ------------------------------------------------------------------------ C8

\* C8: calls are scheduled in the order of the snippets; an embed call of
\* snippet j is scheduled only after the persist call of every earlier
\* snippet has completed; the calls in flight all belong to one snippet.
C8_SnippetsSequential ==
    /\ \A a, b \in 1..Len(scheduled) : a < b => scheduled[a].snip <= scheduled[b].snip
    /\ \A id \in 1..Len(scheduled) :
         scheduled[id].name = "embed_chunk_activity" =>
            \A i \in 1..(scheduled[id].snip - 1) :
                \E pid \in PersistIds(i) : pid < id /\ pid \in DOMAIN completed
    /\ \A a, b \in InFlight : scheduled[a].snip = scheduled[b].snip

\* The two embed calls of the second snippet are in flight.
C8_Witness ==
    /\ Cardinality(InFlight) = 2
    /\ \A id \in InFlight : scheduled[id].snip = 2

\* ------------------------------------------------------------------------ C9

\* ceil(n / d) for d > 0.
CeilDiv(n, d) == (n + d - 1) \div d

\* C9: a snippet whose fan-out is scheduled has exactly one embed call per
\* chunk (chunk indexes 0..n-1, n = ceil(len / CHUNK_SIZE)), and its persist
\* call, of which there is at most one, is scheduled after all of them and
\* only when all of them have completed.
C9_FanOutThenFanIn ==
    ValidBatch =>
        \A i \in 1..BatchSize :
            EmbedIds(i) # {} =>
                LET n == CeilDiv(Len(input.snippets.items[i].code.text), CHUNK_SIZE) IN
                /\ Cardinality(EmbedIds(i)) = n
                /\ {scheduled[id].input.chunkIndex : id \in EmbedIds(i)} = 0..(n - 1)
                /\ Cardinality(PersistIds(i)) <= 1
                /\ \A pid \in PersistIds(i) :
                     /\ EmbedIds(i) \subseteq DOMAIN completed
                     /\ \A id \in EmbedIds(i) : id < pid

\* The persist call of a snippet of two chunks is scheduled, one of the two
\* embed calls having resolved to an empty vector.
C9_Witness ==
    /\ ValidBatch
    /\ \E i \in 1..BatchSize :
         /\ Cardinality(EmbedIds(i)) = 2
         /\ PersistIds(i) # {}
         /\ \E id \in EmbedIds(i) : completed[id] = <<>>

\* ----------------------------------------------------------------------- C10

IsPrefix(s, t) == Len(s) <= Len(t) /\ SubSeq(t, 1, Len(s)) = s

\* The execution of the generator on the recorded history when the events
\* 0..k count as already processed.
Replay(k) == embeddings_orchestrator([input |-> input, completed |-> completed, seen |-> 0..k])

\* C10: whatever part of the history counts as replayed, an execution of the
\* generator on the recorded history makes the calls the host has scheduled,
\* in their order and with their inputs, followed by the new ones; the calls,
\* the state it ends in and the value it returns do not depend on
\* is_replaying; and once the host has processed every recorded event, the
\* execution ends in the recorded state with the recorded value.
C10_ReplayDeterministic ==
    status # "none" =>
        LET first == Replay(0 - 1) IN
        \A k \in (0 - 1)..Len(scheduled) :
            LET again == Replay(k) IN
            /\ IsPrefix(scheduled, again.calls)
            /\ again.calls = first.calls
            /\ again.status = first.status
            /\ again.output = first.output
            /\ (seen = Events /\ status # "pending") =>
                    /\ again.calls = scheduled
                    /\ again.status = status
                    /\ again.output = output

\* The orchestration of a batch of two snippets has completed in an episode
\* that replayed its start, and replaying everything changes the log.
C10_Witness ==
    /\ ValidBatch /\ BatchSize = 2
    /\ status = "completed"
    /\ logs[1] = "[REPLAY] ORCH replay"
    /\ Replay(Len(scheduled)).logs # logs

\* ----------------------------------------------------------------------- C11

\* C11: every response of http_query is either a 200 with an answer the
\* generation capability produced and the citations, or a non-200 with an
\* error payload; when the generation capability fails, the response is not
\* a 200 with an empty answer.
C11_AnswerOrError ==
    call.op = "http_query" =>
        /\ call.status_code = 200 =>
             /\ call.body.kind = "answer"
             /\ call.chat.kind \notin {"raise", "unconfigured"}
             /\ call.body.usage.error = Absent
        /\ call.status_code # 200 => call.body.kind = "error"
        /\ (call.generated /\ call.chat.kind = "raise") =>
             ~(call.status_code = 200 /\ call.body.answer = "")

\* ----------------------------------------------------------------------- C12

\* The vector-search step failed: vector_search raised, or it returned an
\* error payload.
SearchFailed == call.search.raised \/ call.search.raw.json = "dict"

\* C12: when the vector-search step fails, the status is not a success, the
\* generation capability is not called, and an error payload is answered
\* with 502.
C12_SearchErrorBubbles ==
    (call.op = "http_query" /\ SearchFailed) =>
        /\ call.status_code >= 400
        /\ call.body.kind = "error"
        /\ ~call.generated
        /\ call.search.raw.json = "dict" => call.status_code = 502

\* ----------------------------------------------------------------------- C13

C14_NoEmbeddingNotSearchable ==
    /\ call.op = "query" =>
         \A i \in 1..Len(call.result) :
            \A d \in store : d.id = call.result[i].id => d.embedding # <<>>
    /\ \A d \in store :
         d.embedding = <<>> => get_snippet_by_id(store, d.name) = [found |-> TRUE, doc |-> d]

\* ----------------------------------------------------------------------- C15

RECURSIVE Concat(_)
\* The concatenation of a list of texts, in order.
Concat(chunks) == IF chunks = <<>> THEN <<>> ELSE Head(chunks) \o Concat(Tail(chunks))

\* The chunks rebuild the text, every chunk but the last has size
\* characters, and the last has at most size.
LosslessOrdered(text, size, chunks) ==
    /\ Concat(chunks) = text
    /\ \A k \in 1..(Len(chunks) - 1) : Len(chunks[k]) = size
    /\ chunks # <<>> => Len(chunks[Len(chunks)]) <= size

C16_AtLeastOneEmbedCall ==
    /\ Chunks(<<>>) = << <<>> >>
    /\ \A text \in BatchTexts : Chunks(text) # <<>>
    /\ \A id \in 1..Len(scheduled) :
         scheduled[id].name = "persist_snippet_activity" =>
            \E e \in EmbedIds(scheduled[id].snip) : e < id

\* The persist call of a snippet of one chunk is scheduled.
C16_Witness ==
    \E id \in 1..Len(scheduled) :
        /\ scheduled[id].name = "persist_snippet_activity"
        /\ Cardinality(EmbedIds(scheduled[id].snip)) = 1

\* ----------------------------------------------------------------------- C17

RECURSIVE ColumnSum(_, _)
\* The sum of the j-th components of a list of vectors.
ColumnSum(vectors, j) ==
    IF vectors = <<>> THEN 0 ELSE Head(vectors)[j] + ColumnSum(Tail(vectors), j)

\* C17: for vectors that are not empty and of one length the aggregate is
\* their element-wise mean ([[1,2],[3,4]] gives [2, 3]); for no vectors, or
\* an empty first vector, it is the empty vector and nothing is raised.
C17_AggregateIsMean ==
    call.op = "aggregate" =>
        LET e == call.embeddings
            r == call.result
        IN /\ (e = <<>> \/ e[1] = <<>>) => (~r.raised /\ r.agg = <<>>)
           /\ (e # <<>> /\ e[1] # <<>> /\ \A n \in 1..Len(e) : Len(e[n]) = Len(e[1])) =>
                /\ ~r.raised
                /\ Len(r.agg) = Len(e[1])
                /\ \A j \in 1..Len(e[1]) :
                     /\ r.agg[j].den > 0
                     /\ r.agg[j].num * Len(e) = r.agg[j].den * ColumnSum(e, j)
           /\ e = << <<1, 2>>, <<3, 4>> >> => r.agg = <<Float(2), Float(3)>>

\* Three vectors of two components were aggregated, to a mean that is not a
\* whole number.
C17_Witness ==
    /\ call.op = "aggregate"
    /\ call.embeddings = << <<1, 2>>, <<1, 2>>, <<3, 4>> >>
    /\ ~call.result.raised
    /\ call.result.agg[1].den = 3

\* ----------------------------------------------------------------------- C18

\* The bijections of 1..n onto itself.
Permutations1(n) == {f \in [1..n -> 1..n] : \A i, j \in 1..n : i # j => f[i] # f[j]}

\* C18: every permutation of the list of per-chunk results aggregates to
\* the same outcome: the same vector, and raising or not alike.
C18_AggregateOrderInsensitive ==
    call.op = "aggregate" =>
        \A f \in Permutations1(Len(call.embeddings)) :
            Aggregate([i \in 1..Len(call.embeddings) |-> call.embeddings[f[i]]]) = call.result

\* ----------------------------------------------------------------------- C19

\* What the validation is specified to accept: a mapping whose "snippets" is
\* a non-empty list of mappings, each with a non-empty string name and a
\* string code that is not blank.
Acceptable(p) ==
    /\ p.type = "dict"
    /\ p.snippets.type = "list"
    /\ p.snippets.items # <<>>
    /\ \A i \in 1..Len(p.snippets.items) :
         LET snip == p.snippets.items[i] IN
         /\ snip.type = "dict"
         /\ snip.name \notin {Absent, NotAString, ""}
         /\ snip.code.type = "str"
         /\ \E j \in 1..Len(snip.code.text) : snip.code.text[j] \notin Whitespace

\* C19: validate_input accepts a payload exactly when it is acceptable.
C19_ValidateInputExact ==
    call.op = "validate" => (call.result <=> Acceptable(call.input))

\* ----------------------------------------------------------------------- C20

\* The question of the request is missing, empty or whitespace only.
BlankQuestion ==
    \/ call.request.question.type = "absent"
    \/ /\ call.request.question.type = "str"
       /\ \A j \in 1..Len(call.request.question.text) :
            call.request.question.text[j] \in Whitespace

\* C20: a blank question is answered with 400 and no capability is called;
\* a question that is not blank, without projectId, is not turned down: the
\* request goes on to vector_search with the scope "default-project".
C20_BlankQuestionRejected ==
    (call.op = "http_query" /\ call.request.type = "dict"
        /\ call.request.question.type # "number") =>
        /\ BlankQuestion =>
             /\ call.status_code = 400
             /\ ~call.search.embedded /\ ~call.search.searched /\ ~call.generated
             /\ call.search = NotSearched
        /\ (~BlankQuestion /\ call.request.projectId = Absent) =>
             /\ call.status_code # 400
             /\ call.project_id = "default-project"
             /\ call.search # NotSearched
             /\ configured => call.search.embedded

\* A question of one blank was turned down with 400.
C20_Witness ==
    /\ call.op = "http_query"
    /\ call.request.type = "dict"
    /\ call.request.question = [type |-> "str", text |-> <<" ">>]
    /\ call.status_code = 400

\* C21: when calls of upsert_document run side by side and have returned,
\* two calls with different ids have each left their own document in the
\* store, and two calls with the same id have left exactly one document with
\* that id, which is the whole document of one of the two calls.
C21_ConcurrentUpsertsAtomic ==
    \A t, u \in Coroutines :
        (t # u /\ tasks[t].pc = "done" /\ tasks[u].pc = "done"
              /\ ~tasks[t].raised /\ ~tasks[u].raised) =>
            IF tasks[t].name # tasks[u].name
            THEN LocalDocument(tasks, t) \in store /\ LocalDocument(tasks, u) \in store
            ELSE /\ Cardinality({d \in store : d.id = tasks[t].name}) = 1
                 /\ \A d \in store : d.id = tasks[t].name =>
                        d \in {LocalDocument(tasks, t), LocalDocument(tasks, u)}

\* Two overlapping calls with the same id and different project and code
\* have both returned.
C21_Witness ==
    \E t, u \in Coroutines :
        /\ t # u /\ tasks[t].pc = "done" /\ tasks[u].pc = "done"
        /\ tasks[u].concurrent
        /\ tasks[t].name = tasks[u].name
        /\ tasks[t].project_id # tasks[u].project_id
        /\ tasks[t].code # tasks[u].code
        /\ Cardinality(store) = 1

\* C27: under every interleaving of the store operations with a
\* vector_search whose exit runs close_connections, no operation is called on
\* a container (or database, or client) whose client has been closed, and
\* when no coroutine is running the module does not hold a cached container
\* while the cached client is None.
C27_NoUseAfterClose ==
    /\ \A t \in Coroutines : tasks[t].op # "none" => ~tasks[t].on_closed
    /\ (\A t \in Coroutines : ~InLoop(t)) =>
           ~(connections.container # None /\ connections.client = None)

\* The store failed under the last operation.
StoreFailed == call.op # "none" /\ ~call.available

\* C22: when the store fails under an operation, a request answers with an
\* error (status 500) and load_snippet_activity does not return what it
\* returns for a snippet that does not exist (the empty mapping): no
\* operation reports the failure as "not found" or as an empty result.
C22_StoreErrorsSurface ==
    StoreFailed =>
        CASE call.op = "http_save_snippet" ->
                 call.status_code \in {400, 500}
          [] call.op = "http_get_snippet" -> call.status_code \in {400, 500}
          [] call.op = "http_list_snippets" -> call.status_code = 500
          [] call.op = "load_snippet_activity" ->
                 (call.name \in Names => call.result # EmptyDoc)

\* The last request saved a snippet.
Saved(c) == c.op = "http_save_snippet" /\ c.status_code = 200

\* The document a saved snippet is stored as.
SavedDocument(c) ==
    Document(c.req_body.name,
             IF "projectId" \in DOMAIN c.req_body THEN c.req_body.projectId
             ELSE DEFAULT_PROJECT_ID,
             c.req_body.code, c.embedding.embedding, Absent, Absent)

\* A step leaves the lookup of a name as it was, unless it upserts a
\* document with that name: then the lookup returns that document.
LookupFollowsUpserts ==
    \A n \in Names :
        get_snippet_by_id(store', n) =
            IF Saved(call') /\ call'.req_body.name = n
            THEN [found |-> TRUE, doc |-> SavedDocument(call')]
            ELSE get_snippet_by_id(store, n)

\* GET snippets/{name} on a store that answers: 404 when the lookup finds
\* nothing, otherwise 200 with the document; and 404 in no other case.
HttpGetMatchesLookup ==
    call.op = "http_get_snippet" =>
        LET g == get_snippet_by_id(store, IF call.name = Absent THEN "" ELSE call.name)
        IN /\ (call.available /\ call.name \in Names) =>
                  IF g.found THEN call.status_code = 200 /\ call.body = g.doc
                  ELSE call.status_code = 404
           /\ call.status_code = 404 => (call.available /\ call.name \in Names /\ ~g.found)

\* C24: the point lookup uses a global id space. Before any upsert no name
\* is found; every upsert of a document named N makes get_snippet_by_id(N)
\* return that document, whatever its projectId, and no other step changes
\* what the lookup of N returns; on a store that answers, GET snippets/N is
\* 404 exactly when the lookup finds nothing and 200 with the document
\* otherwise.
C24_GlobalPointLookup ==
    /\ [](call.op = "none" => \A n \in Names : ~get_snippet_by_id(store, n).found)
    /\ [][LookupFollowsUpserts]_vars
    /\ []HttpGetMatchesLookup

\* GET snippets/{name} returns a document that is stored under a project
\* other than the default one, while another name has never been upserted.
C24_Witness ==
    /\ call.op = "http_get_snippet" /\ call.status_code = 200
    /\ call.body.projectId = "p2"
    /\ \E n \in Names : call.status_code = 200 /\ ~get_snippet_by_id(store, n).found

\* The blob passes the size, type and non-empty filters of process_blob.
PassesFilters(b) ==
    /\ b.size_mb <= MAX_BLOB_MB
    /\ LowerExtension(b.ext) \in SupportedExtensions
    /\ Strip(b.text) # <<>>

\* C23: a blob that passes the filters and was deleted, once the
\* orchestration started for it has ended, has been accepted by that
\* orchestration and has a document in the store: it is never deleted while
\* its content ends up in no stored document.
C23_DeletedOnlyIfIngested ==
    (/\ blob.state = "deleted"
     /\ PassesFilters(blob.file)
     /\ status \in {"completed", "failed"})
        => (blob.started /\ status = "completed" /\ store # {})

\* C25: all the documents of the store have an embedding of the same
\* length, whatever mix of ingestions wrote them.
C25_EmbeddingLengthConstant ==
    \A d, e \in store : Len(d.embedding) = Len(e.embedding)

\* The instance has reached a terminal status.
Terminal == status \in {"completed", "failed"}

\* The status of a started instance changes only in an episode that
\* processes new events of the history, and it becomes terminal only when
\* every activity the generator scheduled and awaited has completed.
StatusChangesOnCompletion ==
    (status \in {"pending", "running"} /\ status' # status) =>
        /\ seen' # seen
        /\ status = "running" => seen' \ seen \subseteq 1..Len(scheduled)
        /\ status' \in {"completed", "failed"} => InFlight = {}

\* C26: when every episode with events to process is run and every
\* scheduled activity runs to its end, an instance started on a valid batch
\* reaches a terminal status (completed or failed); and the status of a
\* started instance changes only when the completion of an awaited activity
\* (or of a whole barrier) is processed.
C26_ValidBatchTerminates ==
    /\ (ValidBatch /\ status \in {"pending", "running"}) ~> Terminal
    /\ [][StatusChangesOnCompletion]_vars

\* An instance started on a batch of MaxSnippets snippets has completed.
C26_Witness ==
    /\ ValidBatch /\ status = "completed"
    /\ Len(input.snippets.items) = MaxSnippets

\* The project the orchestrator saves the snippet under.
SaveProject == IF "projectId" \in DOMAIN input THEN input.projectId ELSE DEFAULT_PROJECT_ID

\* An activity of the instance has failed and an episode has processed it.
ActivityFailed == \E id \in DOMAIN completed : completed[id].failed /\ id \in seen

\* C28: in save_snippet_orchestrator the upload and the embedding activity
\* are both scheduled, with the input's code, project and name, before the
\* orchestrator waits; the upsert activity is scheduled only after both have
\* completed and receives their two results with the input's name, project
\* and code; the orchestration returns id and projectId of the upsert result
\* with status 'completed'; and once an activity has failed the
\* orchestration fails and returns nothing.
C28_SaveFanOutFanIn ==
    /\ status = "running" =>
          /\ Len(scheduled) >= 2
          /\ scheduled[1] = Call("upload_raw_code_activity",
                                 [code |-> input.code, project_id |-> SaveProject,
                                  name |-> input.name], 0)
          /\ scheduled[2] = Call("generate_embedding_activity", input.code, 0)
    /\ Len(scheduled) >= 3 =>
          /\ {1, 2} \subseteq DOMAIN completed
          /\ ~completed[1].failed /\ ~completed[2].failed
          /\ Len(scheduled) = 3
          /\ scheduled[3] = Call("upsert_document_activity",
                                 [name |-> input.name, project_id |-> SaveProject,
                                  code |-> input.code, blob_url |-> completed[1].value,
                                  embedding |-> completed[2].value], 0)
    /\ status = "completed" =>
          /\ 3 \in DOMAIN completed /\ ~completed[3].failed
          /\ output = [id |-> completed[3].value.id,
                       projectId |-> completed[3].value.projectId, status |-> "completed"]
    /\ ActivityFailed => (status = "failed" /\ output = "activity failed")

\* An orchestration has returned the id and project of the snippet it saved.
C28_Witness ==
    /\ status = "completed"
    /\ output = [id |-> input.name, projectId |-> SaveProject, status |-> "completed"]
    /\ Len(scheduled) = 3

\* The filter was enabled in the last call of _apply_guardrails.
Filtered == call.op = "apply_guardrails" /\ call.enable_filter

\* C30: with the content filter enabled, the text _apply_guardrails returns
\* contains none of the banned fragments in any letter case, so whenever
\* 'content-filter:blocked' is reported every occurrence that triggered the
\* report has been replaced by '[REDACTED]'.
C30_NoBannedFragmentLeft ==
    Filtered =>
        \A i \in 1..Len(banned) : ~Contains(Lower(call.result.code), Lower(banned[i]))

\* An episode of the orchestrator has run.
Ran == status \in {"running", "completed", "failed"}

\* The id the input gives: the one under "snippetId" if the key is there,
\* otherwise the one under "name", otherwise none ("").
GivenId ==
    IF "snippetId" \in DOMAIN input THEN input.snippetId
    ELSE IF "name" \in DOMAIN input THEN input.name
    ELSE ""

\* Load -> Review -> (Docs, Tests): the load is the first call, the review
\* is scheduled once the load has completed, the documentation and the
\* testing call are scheduled together once the review has completed and
\* carry its result, and the orchestration returns ok=true once both have
\* completed.
LoadReviewDocsTests ==
    /\ Len(scheduled) >= 1 =>
          scheduled[1] = Call("load_snippet_activity", [name |-> GivenId], 0)
    /\ Len(scheduled) >= 2 =>
          /\ 1 \in DOMAIN completed /\ ~completed[1].failed
          /\ scheduled[2].name = "code_review_agent_activity"
    /\ Len(scheduled) >= 3 =>
          /\ 2 \in DOMAIN completed /\ ~completed[2].failed
          /\ Len(scheduled) = 4
          /\ scheduled[3].name = "documentation_agent_activity"
          /\ scheduled[4].name = "testing_agent_activity"
          /\ scheduled[3].input.review = completed[2].value
          /\ scheduled[4].input.review = completed[2].value
    /\ (status = "completed" /\ output.ok) =>
          /\ {3, 4} \subseteq DOMAIN completed
          /\ ~completed[3].failed /\ ~completed[4].failed
          /\ output.agents = [review |-> completed[2].value,
                              documentation |-> completed[3].value,
                              testing |-> completed[4].value]

\* The orchestration has returned ok=false and has scheduled no activity.
RefusedUnscheduled ==
    status = "completed" /\ ~output.ok /\ scheduled = <<>>

\* C29 as claimed: Load -> Review -> (Docs, Tests), and an orchestration
\* whose input has no snippetId, or that runs with MAX_AGENT_ITERATIONS < 2,
\* returns ok=false without scheduling any activity.
C29_RefusedWithoutSnippetId ==
    /\ LoadReviewDocsTests
    /\ (Ran /\ (GetKey(input, "snippetId", "") = "" \/ env.MAX_AGENT_ITERATIONS < 2))
          => RefusedUnscheduled

\* C29, amended: Load -> Review -> (Docs, Tests), and an orchestration whose
\* input gives no id (neither under snippetId nor, when that key is missing,
\* under name), or that runs with MAX_AGENT_ITERATIONS < 2, returns ok=false
\* without scheduling any activity; every other orchestration schedules the
\* load of the given id first.
C29_LoadReviewDocsTests ==
    /\ LoadReviewDocsTests
    /\ (Ran /\ (GivenId = "" \/ env.MAX_AGENT_ITERATIONS < 2)) => RefusedUnscheduled
    /\ (Ran /\ GivenId # "" /\ env.MAX_AGENT_ITERATIONS >= 2) => Len(scheduled) >= 1

\* An orchestration started on a name alone has run the four activities and
\* returned, and the two last ones got the result of the review.
C29_Witness ==
    /\ input = [name |-> "a"]
    /\ status = "completed" /\ output.ok
    /\ Len(scheduled) = 4
    /\ scheduled[3].input.review = "result-2"

====
